---- MODULE Spec2Model ----
(***************************************************************************)
(* A model of the job-application automation backend:                      *)
(*   - the per-user sliding-window rate limiter of services/ai.py,         *)
(*   - the AIService entry points that sit behind it,                      *)
(*   - the application task engine of services/applicator.py together     *)
(*     with the API handler and the Celery entry point that dispatch it.  *)
(***************************************************************************)
EXTENDS Integers, Sequences, FiniteSets, TLC

(***************************************************************************)
(* Program constants                                                       *)
(***************************************************************************)
\* ai.py:14  _RATE_LIMIT_MAX
RATE_LIMIT_MAX == 15
\* ai.py:15  _RATE_LIMIT_WINDOW (seconds)
RATE_LIMIT_WINDOW == 60

(***************************************************************************)
(* Bounds of the model                                                     *)
(***************************************************************************)
\* the clock is observed on a grid of TickStep seconds, up to MaxNow
TickStep == 30
MaxNow == 90
\* the two-user specification observes the clock a window at a time, up to
\* MaxNowUsers
MaxNowUsers == 60
\* the interleaved specification starts with 0 or PreGranted earlier allowed
\* checks and starts no further check once MaxGranted checks have returned True
PreGranted == 14
MaxGranted == 16

\* user_id None (an AIService built without a user): `not user_id` is true
NoUser == 0
UserIds == {1, 2}
ThreadIds == {1, 2}

VARIABLES
    now,                \* time.time(), in seconds
    rate_limit_store,   \* _rate_limit_store: user id -> list of timestamps
    granted,            \* history: user id -> timestamps of the checks that returned True
    last,               \* the last completed call of the AI module and what it did
    thr,                \* per thread: position inside _check_rate_limit
    env,                \* the job and user records a task works on
    app,                \* the job_applications table: application id -> record
    runs,               \* the executions of apply_to_job_task: run id -> its position and locals
    req                 \* the outcome of the last apply_to_job request

rateVars == <<now, rate_limit_store, granted, last, thr>>
taskVars == <<env, app, runs, req>>
vars == <<now, rate_limit_store, granted, last, thr, env, app, runs, req>>

(***************************************************************************)
(* Helpers                                                                 *)
(***************************************************************************)
Range(s) == {s[i] : i \in DOMAIN s}
Count(s, x) == Cardinality({i \in DOMAIN s : s[i] = x})

(***************************************************************************)
(* The task store and the runs of the engine                               *)
(***************************************************************************)
\* applicator.py:598  max_steps
max_steps == 10
\* executions of apply_to_job_task that are dispatched in one behaviour
MaxRuns == 2
\* steps of one form that show resume or question markers
MaxMarked == 1
\* calls of _close_driver made on one applicator
MaxCloses == 2

RunIds == 1..MaxRuns
\* application ids a dispatch may name: 1 is the application of user 1 for
\* job 1 once it is created, 2 names no record
AppIds == {1, 2}

\* models.py:12-19 ApplicationStatus (the members the engine and apply_to_job use)
PENDING == "pending"
IN_PROGRESS == "in_progress"
APPLIED == "applied"
FAILED == "failed"

\* a row of job_applications; exists = FALSE: no such row
NoApp ==
    [exists |-> FALSE, status |-> PENDING, error_message |-> "None",
     has_log |-> FALSE, automation_log |-> <<>>, applied_at |-> FALSE,
     screenshot_url |-> FALSE]

\* a log entry: the message and the step number it mentions (0: none)
Entry(msg, step) == [msg |-> msg, step |-> step]

\* a run slot: pc is the position inside apply_to_job_task
\*   free -> queued -> init -> select -> apply -> loop -> submit -> finish
\*   -> finally -> returned, with except reachable from init, select
FreeRun ==
    [pc |-> "free", app |-> 1, userOk |-> TRUE, jobOk |-> TRUE,
     found |-> FALSE,         \* the application row was loaded
     committed |-> "none",    \* the last status this run committed
     applicator |-> FALSE,    \* JobApplicator() was constructed
     driver |-> FALSE,        \* self.driver holds a session
     quits |-> 0,             \* driver.quit() calls
     closes |-> 0,            \* _close_driver() calls
     closed_ok |-> FALSE,     \* a _close_driver() call has returned normally
     late_quits |-> 0,        \* quit() calls made after that
     late_raise |-> FALSE,    \* a _close_driver() call raised after that
     ai |-> FALSE,            \* ai_service is set
     ai_model |-> FALSE,      \* ... and its model was configured
     candidates |-> <<>>,     \* the ids of the user's resumes that have text
     resume |-> 0,            \* the id of the selected resume (0: none)
     cause |-> "none",        \* what raised, when the run took the except path
     step |-> 0,              \* iterations of the step loop begun
     marked |-> 0,            \* iterations that showed resume or question markers
     exit |-> "none",         \* how the step loop ended
     submit_clicked |-> FALSE,
     success |-> FALSE,
     log |-> <<>>,
     shot_tried |-> FALSE]    \* _capture_screenshot was called

TaskIdle ==
    /\ env = [source |-> "linkedin", has_key |-> FALSE, desc_absent |-> FALSE]
    /\ app = [a \in AppIds |-> NoApp]
    /\ runs = [r \in RunIds |-> FreeRun]
    /\ req = "none"

(***************************************************************************)
(* _check_rate_limit  (ai.py:18-29)                                        *)
(***************************************************************************)
\* ai.py:23,25,26,28: the dictionary key under which a user's window is kept
SharedKey(u) == 1
StoreKey(u) == u

\* ai.py:25: [t for t in calls if now - t < _RATE_LIMIT_WINDOW]
Purge(calls, t) == SelectSeq(calls, LAMBDA x : t - x < RATE_LIMIT_WINDOW)

\* ai.py:26: len(...) >= _RATE_LIMIT_MAX
OverLimitOffByOne(calls) == Len(calls) > RATE_LIMIT_MAX
OverLimit(calls) == Len(calls) >= RATE_LIMIT_MAX

\* the whole function, executed without interruption:
\* [allowed |-> the return value, store |-> _rate_limit_store afterwards]
CheckRateLimitRecording(store, u, t) ==
    IF u = NoUser
    THEN [allowed |-> TRUE, store |-> store]
    ELSE LET k == StoreKey(u)
             purged == Purge(store[k], t)
         IN  [allowed |-> ~OverLimit(purged),
              store |-> [store EXCEPT ![k] = Append(purged, t)]]
CheckRateLimit(store, u, t) ==
    IF u = NoUser
    THEN [allowed |-> TRUE, store |-> store]
    ELSE LET k == StoreKey(u)
             purged == Purge(store[k], t)
         IN  IF OverLimit(purged)
             THEN [allowed |-> FALSE, store |-> [store EXCEPT ![k] = purged]]
             ELSE [allowed |-> TRUE,
                   store |-> [store EXCEPT ![k] = Append(purged, t)]]

\* history bookkeeping of a completed check
Grant(g, u, t, allowed) ==
    IF allowed /\ u # NoUser THEN [g EXCEPT ![u] = Append(g[u], t)] ELSE g

(***************************************************************************)
(* Strings and JSON values of the answer call                              *)
(*   a string is a sequence of characters; a JSON scalar is tagged:        *)
(*   [t |-> "str", s |-> string], [t |-> "int"] (the number 1),            *)
(*   [t |-> "null"]                                                        *)
(***************************************************************************)
Alphabet == {"Y", "y", "1"}
\* longest option / reply string, longest option list, most questions on a step
MaxStrLen == 1
MaxOptions == 2
MaxQuestions == 2

Strings == UNION {[1..n -> Alphabet] : n \in 0..MaxStrLen}
StrVal(s) == [t |-> "str", s |-> s]
IntVal == [t |-> "int"]
NullVal == [t |-> "null"]
JsonValues == {StrVal(s) : s \in Strings} \cup {IntVal, NullVal}

\* str.lower()
Lower(s) == [i \in DOMAIN s |-> IF s[i] = "Y" THEN "y" ELSE s[i]]

\* str(value)
PyStr(v) ==
    CASE v.t = "str" -> v.s
      [] v.t = "int" -> <<"1">>
      [] v.t = "null" -> <<"N", "o", "n", "e">>

\* ai.py:204: answers[qid] in q['options']  (a non-string never equals an option)
InOptions(v, options) == v.t = "str" /\ \E i \in DOMAIN options : options[i] = v.s

\* ai.py:206-209: next((opt for opt in options if opt.lower() == str(v).lower()), None)
RECURSIVE FirstMatch(_, _, _)
FirstMatch(options, v, i) ==
    IF i > Len(options) THEN [found |-> FALSE, opt |-> <<>>]
    ELSE IF Lower(options[i]) = Lower(PyStr(v)) THEN [found |-> TRUE, opt |-> options[i]]
    ELSE FirstMatch(options, v, i + 1)

\* ai.py:203-217: the value stored for one question that has an answer
ResolveKeep(q, v) == v
ResolveAnswer(q, v) ==
    IF q.type \in {"select", "radio"} /\ q.options # <<>>
    THEN IF InOptions(v, q.options) THEN v
         ELSE LET matched == FirstMatch(q.options, v, 1) IN
              \* `if matched:` an empty string is falsy
              IF matched.found /\ matched.opt # <<>>
              THEN StrVal(matched.opt)
              ELSE StrVal(q.options[1])
    ELSE v

\* ai.py:199-217: the validation loop over the questions, from question i on
RECURSIVE ValidateAnswers(_, _, _)
ValidateAnswers(questions, answers, i) ==
    IF i > Len(questions) THEN answers
    ELSE LET q == questions[i] IN
         IF q.id \notin DOMAIN answers
         THEN ValidateAnswers(questions, answers, i + 1)
         ELSE ValidateAnswers(questions,
                  [answers EXCEPT ![q.id] = ResolveAnswer(q, answers[q.id])], i + 1)

(***************************************************************************)
(* AIService  (ai.py:32-271)                                               *)
(*   Each entry point is a function of the service (has it a model, its    *)
(*   user id), the limiter's store, the clock, its arguments and the       *)
(*   model's reply; the result records the return value and the effects.   *)
(*   reply.kind: "raise"  generate_content raised                          *)
(*               "text"   a reply that is no integer and no JSON           *)
(*               "int"    the integer reply.id                             *)
(*               "object" a JSON object, reply.map: question id -> value   *)
(*               "array"  a JSON array (holding no question id)            *)
(*               "scalar" a JSON number, null or boolean                   *)
(***************************************************************************)
EmptyMap == <<>>
MapRet(m) == [kind |-> "map", map |-> m]
IdRetNone(resumes) == [kind |-> "none"]
IdRet(resumes) == IF resumes = <<>> THEN [kind |-> "none"] ELSE [kind |-> "id", id |-> resumes[1]]

Effects(checked, allowed, store, called, usage, ret, raised) ==
    [checked |-> checked, allowed |-> allowed, store |-> store,
     called_model |-> called, usage |-> usage, ret |-> ret, raised |-> raised]

\* ai.py:50-53: _log_usage writes a record only for a service that has a user id
LogUsage(u, statuses) == IF u = NoUser THEN <<>> ELSE statuses

\* ai.py:84-124
AnalyzeJobMatch(hasModel, u, store, t, descAbsent, resumes, reply) ==
    IF ~hasModel \/ resumes = <<>>
    THEN Effects(FALSE, TRUE, store, FALSE, <<>>, IdRet(resumes), FALSE)
    ELSE LET c == CheckRateLimit(store, u, t) IN
         IF ~c.allowed
         THEN Effects(TRUE, FALSE, c.store, FALSE, <<>>, IdRet(resumes), FALSE)
         ELSE IF descAbsent
         \* job_description[:5000] on None raises before the try block
         THEN Effects(TRUE, TRUE, c.store, FALSE, <<>>, [kind |-> "none"], TRUE)
         ELSE IF reply.kind = "raise"
         THEN Effects(TRUE, TRUE, c.store, TRUE, LogUsage(u, <<"error">>), IdRet(resumes), FALSE)
         ELSE IF reply.kind # "int"
         \* int(response.text.strip()) raises after the success record was written
         THEN Effects(TRUE, TRUE, c.store, TRUE, LogUsage(u, <<"success", "error">>),
                      IdRet(resumes), FALSE)
         ELSE IF reply.id \notin Range(resumes)
         THEN Effects(TRUE, TRUE, c.store, TRUE, LogUsage(u, <<"success">>),
                      IdRet(resumes), FALSE)
         ELSE Effects(TRUE, TRUE, c.store, TRUE, LogUsage(u, <<"success">>),
                      [kind |-> "id", id |-> reply.id], FALSE)

\* ai.py:126-224
AnswerFormQuestions(hasModel, u, store, t, questions, reply) ==
    IF ~hasModel \/ questions = <<>>
    THEN Effects(FALSE, TRUE, store, FALSE, <<>>, MapRet(EmptyMap), FALSE)
    ELSE LET c == CheckRateLimit(store, u, t) IN
         IF ~c.allowed
         THEN Effects(TRUE, FALSE, c.store, FALSE, <<>>, MapRet(EmptyMap), FALSE)
         ELSE IF reply.kind = "raise"
         THEN Effects(TRUE, TRUE, c.store, TRUE, LogUsage(u, <<"error">>),
                      MapRet(EmptyMap), FALSE)
         ELSE IF reply.kind \in {"text", "scalar"}
         \* json.loads raises, or `qid not in answers` raises on a number/null
         THEN Effects(TRUE, TRUE, c.store, TRUE, LogUsage(u, <<"success", "error">>),
                      MapRet(EmptyMap), FALSE)
         ELSE IF reply.kind = "array"
         \* no question id is an element of the list: it is returned as it is
         THEN Effects(TRUE, TRUE, c.store, TRUE, LogUsage(u, <<"success">>),
                      [kind |-> "array"], FALSE)
         ELSE Effects(TRUE, TRUE, c.store, TRUE, LogUsage(u, <<"success">>),
                      MapRet(ValidateAnswers(questions, reply.map, 1)), FALSE)

\* ai.py:226-271
ExtractApplicationData(hasModel, u, store, t, argAbsent, reply) ==
    IF ~hasModel
    THEN Effects(FALSE, TRUE, store, FALSE, <<>>, MapRet(EmptyMap), FALSE)
    ELSE LET c == CheckRateLimit(store, u, t) IN
         IF ~c.allowed
         THEN Effects(TRUE, FALSE, c.store, FALSE, <<>>, MapRet(EmptyMap), FALSE)
         ELSE IF argAbsent
         \* resume_text[:10000] / job_description[:5000] on None raises before the try
         THEN Effects(TRUE, TRUE, c.store, FALSE, <<>>, [kind |-> "none"], TRUE)
         ELSE IF reply.kind = "raise"
         THEN Effects(TRUE, TRUE, c.store, TRUE, LogUsage(u, <<"error">>),
                      MapRet(EmptyMap), FALSE)
         ELSE IF reply.kind \in {"text"}
         THEN Effects(TRUE, TRUE, c.store, TRUE, LogUsage(u, <<"success", "error">>),
                      MapRet(EmptyMap), FALSE)
         ELSE Effects(TRUE, TRUE, c.store, TRUE, LogUsage(u, <<"success">>),
                      [kind |-> "json"], FALSE)

(***************************************************************************)
(* State of the AI module                                                  *)
(***************************************************************************)
Raise == [kind |-> "raise"]
IdleThread == [pc |-> "idle", u |-> NoUser, now |-> 0, calls |-> <<>>]

NoCall ==
    [fn |-> "none", u |-> NoUser, at |-> 0, prior |-> 0, checked |-> FALSE,
     allowed |-> TRUE, called_model |-> FALSE, usage |-> <<>>,
     ret |-> [kind |-> "none"], raised |-> FALSE,
     questions |-> <<>>, reply |-> Raise]

Prior(u) == IF u = NoUser THEN 0 ELSE Len(granted[u])

InitRate ==
    /\ now = 0
    /\ rate_limit_store = [u \in UserIds |-> <<>>]
    /\ granted = [u \in UserIds |-> <<>>]
    /\ last = NoCall
    /\ thr = [t \in ThreadIds |-> IdleThread]
    /\ TaskIdle

\* the clock advances
Tick(step, maxNow) ==
    /\ now + step <= maxNow
    /\ now' = now + step
    /\ UNCHANGED <<rate_limit_store, granted, last, thr, taskVars>>

\* the bookkeeping common to the entry points: e is the Effects record of the call
Record(fn, u, questions, reply, e) ==
    /\ rate_limit_store' = e.store
    /\ granted' = Grant(granted, u, now, e.checked /\ e.allowed)
    /\ last' = [fn |-> fn, u |-> u, at |-> now, prior |-> Prior(u),
                checked |-> e.checked, allowed |-> e.allowed,
                called_model |-> e.called_model, usage |-> e.usage,
                ret |-> e.ret, raised |-> e.raised,
                questions |-> questions, reply |-> reply]

Complete(fn, u, questions, reply, e) ==
    /\ Record(fn, u, questions, reply, e)
    /\ UNCHANGED <<now, thr, taskVars>>

\* one uninterrupted call of _check_rate_limit(u)
Check(u) ==
    LET c == CheckRateLimit(rate_limit_store, u, now) IN
    Complete("check", u, <<>>, Raise,
             Effects(TRUE, c.allowed, c.store, FALSE, <<>>, [kind |-> "none"], FALSE))

\* AIService(...).analyze_job_match(job.description, resumes)
CallAnalyzeJobMatch(u, hasModel, descAbsent, resumes, reply) ==
    Complete("job_match", u, <<>>, reply,
             AnalyzeJobMatch(hasModel, u, rate_limit_store, now, descAbsent, resumes, reply))

\* AIService(...).answer_form_questions(questions, ...)
CallAnswerFormQuestions(u, hasModel, questions, reply) ==
    Complete("form_questions", u, questions, reply,
             AnswerFormQuestions(hasModel, u, rate_limit_store, now, questions, reply))

\* AIService(...).extract_application_data(job_description, resume_text)
CallExtractApplicationData(u, hasModel, argAbsent, reply) ==
    Complete("data_extraction", u, <<>>, reply,
             ExtractApplicationData(hasModel, u, rate_limit_store, now, argAbsent, reply))

(***************************************************************************)
(* SpecRate: one user (and the user-less service) calling one at a time    *)
(***************************************************************************)
OneQuestion == <<[id |-> "q0", type |-> "text", options |-> <<>>]>>
NextRate ==
    \/ Tick(TickStep, MaxNow)
    \/ \E u \in {NoUser, 1} : Check(u)
    \/ \E u \in {NoUser, 1}, hasModel \in BOOLEAN :
           CallAnalyzeJobMatch(u, hasModel, FALSE, <<1>>, Raise)
    \/ \E u \in {NoUser, 1}, hasModel \in BOOLEAN :
           CallAnswerFormQuestions(u, hasModel, OneQuestion, Raise)
    \/ \E u \in {NoUser, 1}, hasModel \in BOOLEAN :
           CallExtractApplicationData(u, hasModel, FALSE, Raise)

SpecRate == InitRate /\ [][NextRate]_vars

(***************************************************************************)
(* C7. Checks executed one at a time: a check of user u returns False      *)
(* exactly when 15 or more of u's earlier allowed checks lie within the    *)
(* 60 seconds before it; hence no 60-second window ever holds more than 15 *)
(* allowed checks of one user; and an entry point whose check returned     *)
(* False has made no model call.                                           *)
(***************************************************************************)
\* how many of the first n allowed checks of u are younger than the window at time t
RecentGrants(u, n, t) ==
    Cardinality({i \in 1..n : t - granted[u][i] < RATE_LIMIT_WINDOW})

\* no window (x - 60, x] holds more than 15 allowed checks of one user
WindowBound ==
    \A u \in UserIds : \A x \in Range(granted[u]) :
        Cardinality({i \in DOMAIN granted[u] :
                        granted[u][i] <= x /\ x - granted[u][i] < RATE_LIMIT_WINDOW})
            <= RATE_LIMIT_MAX

\* C7: a serial check is refused exactly when the user's window holds 15
\* allowed checks, no window holds more than 15, a refused entry point makes
\* no model call
RateLimitExact ==
    /\ (last.checked /\ last.u # NoUser) =>
            (last.allowed <=> RecentGrants(last.u, last.prior, last.at) < RATE_LIMIT_MAX)
    /\ WindowBound
    /\ (last.checked /\ ~last.allowed) => ~last.called_model

\* a rejected entry point: 15 grants at time 0, the call at time 30 is refused
RateLimitExactWitness ==
    /\ last.fn = "form_questions" /\ last.u = 1 /\ last.at = TickStep
    /\ last.checked /\ ~last.allowed /\ ~last.called_model
    /\ RecentGrants(1, last.prior, last.at) = RATE_LIMIT_MAX

(***************************************************************************)
(* SpecRateUsers: two users calling one at a time                          *)
(***************************************************************************)
NextRateUsers ==
    \/ Tick(RATE_LIMIT_WINDOW, MaxNowUsers)
    \/ \E u \in UserIds : CallAnswerFormQuestions(u, TRUE, OneQuestion, Raise)

SpecRateUsers == InitRate /\ [][NextRateUsers]_vars

(***************************************************************************)
(* C9. Rate limiting is per user: a call of one user leaves every other    *)
(* user's window as it was and is decided by the caller's own window       *)
(* alone, so a user is still allowed while another user's window is full.  *)
(***************************************************************************)
CallOfUserStep ==
    (now' = now /\ last'.checked /\ last'.u # NoUser) =>
        /\ \A v \in UserIds \ {last'.u} :
               rate_limit_store'[v] = rate_limit_store[v] /\ granted'[v] = granted[v]
        /\ last'.allowed <=>
               RecentGrants(last'.u, Len(granted[last'.u]), now) < RATE_LIMIT_MAX

\* C9: every call leaves the other users' windows unchanged and is decided by
\* the caller's own window
RateLimitPerUser == [][CallOfUserStep]_vars

\* user 1's window is full at this instant and user 2's call was allowed
RateLimitPerUserWitness ==
    /\ Len(Purge(rate_limit_store[1], now)) = RATE_LIMIT_MAX
    /\ RecentGrants(1, Len(granted[1]), now) = RATE_LIMIT_MAX
    /\ last.fn = "form_questions" /\ last.u = 2 /\ last.at = now
    /\ last.checked /\ last.allowed /\ last.called_model

(***************************************************************************)
(* SpecRateThreads: two tasks of the same user inside _check_rate_limit,   *)
(* interleaved between its statements (the function takes no lock)         *)
(***************************************************************************)
\* ai.py:20-22: a real user id; now = time.time()
TBegin(t, u) ==
    /\ thr[t].pc = "idle"
    /\ Len(granted[u]) < MaxGranted
    /\ thr' = [thr EXCEPT ![t] = [pc |-> "read", u |-> u, now |-> now, calls |-> <<>>]]
    /\ UNCHANGED <<now, rate_limit_store, granted, last, taskVars>>

\* ai.py:23: calls = _rate_limit_store.setdefault(user_id, [])
TRead(t) ==
    /\ thr[t].pc = "read"
    /\ thr' = [thr EXCEPT ![t].pc = "purge",
                          ![t].calls = rate_limit_store[StoreKey(thr[t].u)]]
    /\ UNCHANGED <<now, rate_limit_store, granted, last, taskVars>>

\* ai.py:25: _rate_limit_store[user_id] = [t for t in calls if ...]
TPurge(t) ==
    /\ thr[t].pc = "purge"
    /\ rate_limit_store' = [rate_limit_store EXCEPT
                               ![StoreKey(thr[t].u)] = Purge(thr[t].calls, thr[t].now)]
    /\ thr' = [thr EXCEPT ![t].pc = "compare"]
    /\ UNCHANGED <<now, granted, last, taskVars>>

TReturn(t, allowed) ==
    /\ thr' = [thr EXCEPT ![t] = IdleThread]
    /\ granted' = Grant(granted, thr[t].u, thr[t].now, allowed)
    /\ last' = [NoCall EXCEPT !.fn = "check", !.u = thr[t].u, !.at = thr[t].now,
                              !.prior = Prior(thr[t].u), !.checked = TRUE,
                              !.allowed = allowed]

\* ai.py:26-27: if len(_rate_limit_store[user_id]) >= _RATE_LIMIT_MAX: return False
TCompare(t) ==
    /\ thr[t].pc = "compare"
    /\ IF OverLimit(rate_limit_store[StoreKey(thr[t].u)])
       THEN TReturn(t, FALSE)
       ELSE /\ thr' = [thr EXCEPT ![t].pc = "append"]
            /\ UNCHANGED <<granted, last>>
    /\ UNCHANGED <<now, rate_limit_store, taskVars>>

\* ai.py:28-29: _rate_limit_store[user_id].append(now); return True
TAppend(t) ==
    /\ thr[t].pc = "append"
    /\ rate_limit_store' = [rate_limit_store EXCEPT
                               ![StoreKey(thr[t].u)] = Append(@, thr[t].now)]
    /\ TReturn(t, TRUE)
    /\ UNCHANGED <<now, taskVars>>

\* the two tasks meet at time 0 or one window later, after 0 or PreGranted
\* allowed checks at time 0; the clock stands still while they race
InitRateThreads ==
    /\ now \in {0, RATE_LIMIT_WINDOW}
    /\ \E n \in {0, PreGranted} :
           /\ rate_limit_store = [u \in UserIds |-> IF u = 1 THEN [i \in 1..n |-> 0] ELSE <<>>]
           /\ granted = rate_limit_store
    /\ last = NoCall
    /\ thr = [t \in ThreadIds |-> IdleThread]
    /\ TaskIdle

NextRateThreads ==
    \/ \E t \in ThreadIds : TBegin(t, 1)
    \/ \E t \in ThreadIds : TRead(t)
    \/ \E t \in ThreadIds : TPurge(t)
    \/ \E t \in ThreadIds : TCompare(t)
    \/ \E t \in ThreadIds : TAppend(t)

SpecRateThreads == InitRateThreads /\ [][NextRateThreads]_vars

(***************************************************************************)
(* C8. The check is an atomic check-and-record: with two tasks of one user *)
(* interleaved inside it, no 60-second window holds more than 15 allowed   *)
(* checks and no timestamp of an allowed check is lost from the window.    *)
(***************************************************************************)
\* every allowed check still younger than the window is in the user's list
NoTimestampLost ==
    \A u \in UserIds : \A x \in Range(granted[u]) :
        now - x < RATE_LIMIT_WINDOW =>
            Count(rate_limit_store[u], x) >= Count(granted[u], x)

\* C8: under interleaved checks of one user no window holds more than 15
\* allowed checks and no allowed check's timestamp is lost
RateCheckAtomic == WindowBound /\ NoTimestampLost

(***************************************************************************)
(* SpecAnswer: one call of answer_form_questions on every question list    *)
(* and every reply within the bounds, by a service with or without a       *)
(* model, with the user's window empty or full                             *)
(***************************************************************************)
QuestionTypes == {"text", "select", "radio", "checkbox"}
OptionLists == UNION {[1..n -> Strings] : n \in 0..MaxOptions}
\* applicator.py:424: the scraper numbers the questions of a step q0, q1, ...
QId(i) == <<"q0", "q1", "q2", "q3">>[i]
QuestionLists ==
    UNION {{[i \in 1..n |-> [id |-> QId(i), type |-> ty[i], options |-> op[i]]] :
               ty \in [1..n -> QuestionTypes], op \in [1..n -> OptionLists]} :
           n \in 0..MaxQuestions}
\* the replies to a question list: an object answers any subset of its questions
AnswerReplies(qs) ==
    {Raise, [kind |-> "text"], [kind |-> "scalar"], [kind |-> "array"]}
    \cup UNION {{[kind |-> "object", map |-> m] : m \in [D -> JsonValues]} :
                D \in SUBSET {qs[i].id : i \in DOMAIN qs}}
FullWindow == [i \in 1..RATE_LIMIT_MAX |-> 0]

InitAnswer ==
    /\ now = 0
    /\ \E w \in {<<>>, FullWindow} :
           /\ rate_limit_store = [u \in UserIds |-> IF u = 1 THEN w ELSE <<>>]
           /\ granted = rate_limit_store
    /\ \E qs \in QuestionLists : \E reply \in AnswerReplies(qs) :
           last = [NoCall EXCEPT !.fn = "pending", !.questions = qs, !.reply = reply]
    /\ thr = [t \in ThreadIds |-> IdleThread]
    /\ TaskIdle

\* the pending call is made
AnswerCall ==
    /\ last.fn = "pending"
    /\ \E hasModel \in BOOLEAN :
           CallAnswerFormQuestions(1, hasModel, last.questions, last.reply)

NextAnswer == AnswerCall

SpecAnswer == InitAnswer /\ [][NextAnswer]_vars

(***************************************************************************)
(* C10. For a select or radio question with options, whatever value the    *)
(* model's JSON object gives it, the answer returned is one of the         *)
(* options: the value itself if it is an option, else an option equal to   *)
(* it ignoring case, else the first option.                                *)
(***************************************************************************)
EqualIgnoringCase(opt, v) == Lower(opt) = Lower(PyStr(v))

\* C10: the returned answer of every select/radio question with options is a
\* member of the options, chosen as value, case-insensitive match, first option
AnswersAreOptions ==
    (last.fn = "form_questions" /\ last.called_model /\ last.reply.kind = "object") =>
        /\ last.ret.kind = "map"
        /\ \A i \in DOMAIN last.questions :
              LET q == last.questions[i] IN
              (q.type \in {"select", "radio"} /\ q.options # <<>>
                   /\ q.id \in DOMAIN last.reply.map) =>
                  LET v == last.reply.map[q.id]
                      a == last.ret.map[q.id]
                      isOption == v.t = "str" /\ v.s \in Range(q.options)
                      someMatch == \E j \in DOMAIN q.options : EqualIgnoringCase(q.options[j], v)
                  IN  /\ q.id \in DOMAIN last.ret.map
                      /\ a.t = "str"
                      /\ a.s \in Range(q.options)
                      /\ isOption => a = v
                      /\ (~isOption /\ someMatch) => EqualIgnoringCase(a.s, v)
                      /\ (~isOption /\ ~someMatch) => a.s = q.options[1]

\* options ["1", "Y"], the reply "y": the answer is "Y", not the first option
AnswersAreOptionsWitness ==
    /\ last.fn = "form_questions" /\ last.called_model
    /\ Len(last.questions) = 1
    /\ last.questions[1].type = "select"
    /\ last.questions[1].options = <<<<"1">>, <<"Y">>>>
    /\ last.reply = [kind |-> "object", map |-> [x \in {"q0"} |-> StrVal(<<"y">>)]]
    /\ last.ret = MapRet([x \in {"q0"} |-> StrVal(<<"Y">>)])

(***************************************************************************)
(* C18. Every model invocation by a service with a user id writes exactly  *)
(* one usage record: success for a usable answer, error otherwise.         *)
(***************************************************************************)
\* C18: a call that invoked the model wrote one usage record, success
\* exactly when the reply was a JSON object
OneUsageRecord ==
    (last.fn = "form_questions" /\ last.called_model /\ last.u # NoUser) =>
        last.usage = <<IF last.reply.kind = "object" THEN "success" ELSE "error">>

(***************************************************************************)
(* JobApplicator: the browser session  (applicator.py:41-119)              *)
(***************************************************************************)
\* applicator.py:45-113 _init_driver; what the two connection strategies did:
\*   uc_ok              undetected-chromedriver started
\*   uc_fail_grid_ok    it failed before launching, the Selenium Grid session started
\*   uc_half_grid_ok    it launched a browser and then raised, the Grid session started
\*   uc_fail_grid_fail  both failed, nothing was launched
\*   uc_half_grid_fail  it launched a browser and then raised, the Grid raised
InitOutcomes ==
    {"uc_ok", "uc_fail_grid_ok", "uc_half_grid_ok", "uc_fail_grid_fail", "uc_half_grid_fail"}
InitDriver(o) ==
    [driver |-> o # "uc_fail_grid_fail",
     launched |-> CASE o \in {"uc_ok", "uc_fail_grid_ok", "uc_half_grid_fail"} -> 1
                    [] o = "uc_half_grid_ok" -> 2
                    [] OTHER -> 0,
     raised |-> o \in {"uc_fail_grid_fail", "uc_half_grid_fail"}]

\* applicator.py:115-119 _close_driver on an applicator whose self.driver is
\* set (driver) when quit() succeeds (quitOk) or raises
CloseDriverKeepHandle(driver, quitOk) ==
    [quit |-> driver, driver |-> driver, raised |-> driver /\ ~quitOk]
CloseDriver(driver, quitOk) ==
    IF driver
    THEN [quit |-> TRUE, driver |-> ~quitOk, raised |-> ~quitOk]
    ELSE [quit |-> FALSE, driver |-> FALSE, raised |-> FALSE]

\* the run record after one _close_driver call with result c
AfterClose(run, c) ==
    [run EXCEPT !.driver = c.driver,
                !.closes = @ + 1,
                !.quits = @ + (IF c.quit THEN 1 ELSE 0),
                !.late_quits = @ + (IF run.closed_ok /\ c.quit THEN 1 ELSE 0),
                !.late_raise = @ \/ (run.closed_ok /\ c.raised),
                !.closed_ok = @ \/ ~c.raised]

(***************************************************************************)
(* Dispatch: the API handler and the Celery task                           *)
(***************************************************************************)
FreeSlots == {r \in RunIds : runs[r].pc = "free"}
FirstFree == CHOOSE r \in FreeSlots : \A q \in FreeSlots : r <= q
\* background_tasks.add_task(apply_to_job_task, id, user, job) / the Celery task
Queue(a, userOk, jobOk) ==
    runs' = [runs EXCEPT ![FirstFree] =
                [FreeRun EXCEPT !.pc = "queued", !.app = a, !.userOk = userOk, !.jobOk = jobOk]]

\* applications.py:18-84 apply_to_job, by user 1 for job 1 (which exists)
ApplyToJobAnyStatus ==
    /\ FreeSlots # {}
    /\ app' = [app EXCEPT ![1] = [NoApp EXCEPT !.exists = TRUE,
                                               !.screenshot_url = app[1].screenshot_url]]
    /\ Queue(1, TRUE, TRUE)
    /\ req' = IF app[1].exists THEN "reset" ELSE "created"
    /\ UNCHANGED <<rateVars, env>>
ApplyToJob ==
    /\ IF app[1].exists
       THEN IF app[1].status = FAILED
            THEN \* applications.py:38-56 reset and retry
                 /\ FreeSlots # {}
                 /\ app' = [app EXCEPT ![1].status = PENDING,
                                       ![1].error_message = "None",
                                       ![1].has_log = FALSE,
                                       ![1].automation_log = <<>>,
                                       ![1].applied_at = FALSE]
                 /\ Queue(1, TRUE, TRUE)
                 /\ req' = "reset"
            ELSE \* applications.py:58-61 HTTP 400
                 /\ req' = "rejected"
                 /\ UNCHANGED <<app, runs>>
       ELSE \* applications.py:63-84 create the record and queue the task
            /\ FreeSlots # {}
            /\ app' = [app EXCEPT ![1] = [NoApp EXCEPT !.exists = TRUE]]
            /\ Queue(1, TRUE, TRUE)
            /\ req' = "created"
    /\ UNCHANGED <<rateVars, env>>

\* celery_worker.py:39-42 the task 'apply_to_job', sent with any arguments
CeleryDispatch(a, userOk, jobOk) ==
    /\ FreeSlots # {}
    /\ Queue(a, userOk, jobOk)
    /\ UNCHANGED <<rateVars, env, app, req>>

(***************************************************************************)
(* apply_to_job_task  (applicator.py:764-906)                              *)
(***************************************************************************)
\* what is left of a run once apply_to_job_task has returned: its arguments
\* and locals are gone, what it did to the record and to the browser stays
Returned(run) ==
    [FreeRun EXCEPT !.pc = "returned", !.app = run.app, !.found = run.found,
                    !.committed = run.committed, !.applicator = run.applicator,
                    !.driver = run.driver,
                    !.quits = run.quits, !.closes = run.closes,
                    !.closed_ok = run.closed_ok, !.cause = run.cause,
                    !.exit = run.exit, !.step = run.step]

\* applicator.py:769-787: load the records; return if one is missing,
\* else commit IN_PROGRESS
RunLoad(r) ==
    LET run == runs[r]
        found == app[run.app].exists
    IN  /\ run.pc = "queued"
        /\ IF found /\ run.jobOk /\ run.userOk
           THEN /\ app' = [app EXCEPT ![run.app].status = IN_PROGRESS]
                /\ runs' = [runs EXCEPT ![r].pc = "init", ![r].found = TRUE,
                                        ![r].committed = IN_PROGRESS]
           ELSE \* `return` inside try: finally finds applicator = None
                /\ runs' = [runs EXCEPT ![r] = Returned([run EXCEPT !.found = found])]
                /\ UNCHANGED app
        /\ UNCHANGED <<rateVars, env, req>>

\* applicator.py:789-791: applicator = JobApplicator(); applicator._init_driver()
RunInitDriver(r, o) ==
    LET run == runs[r]
        d == InitDriver(o)
    IN  /\ run.pc = "init"
        /\ runs' = [runs EXCEPT ![r] =
               [run EXCEPT !.applicator = TRUE, !.driver = d.driver,
                           !.pc = IF d.raised THEN "except" ELSE "select",
                           !.cause = IF d.raised THEN "init_driver" ELSE "none"]]
        /\ UNCHANGED <<rateVars, env, app, req>>

\* applicator.py:793-853: build the AI service, select the resume.
\* hasModel: genai.configure succeeded; resumes: the ids of the user's resumes
\* with extracted text; reply: the model's reply to the ranking prompt
RunSelectResume(r, hasModel, resumes, reply) ==
    LET run == runs[r]
        e == AnalyzeJobMatch(hasModel, 1, rate_limit_store, now, env.desc_absent, resumes, reply)
        \* applicator.py:821: next((r for r in user.resumes if r.id == best), user.resumes[0])
        chosen == IF e.ret.kind = "id" /\ e.ret.id \in Range(resumes)
                  THEN e.ret.id ELSE resumes[1]
    IN  /\ run.pc = "select"
        /\ IF env.has_key /\ resumes # <<>>
           THEN /\ Record("job_match", 1, <<>>, reply, e)
                /\ runs' = [runs EXCEPT ![r] =
                       IF e.raised
                       THEN [run EXCEPT !.pc = "except", !.cause = "analyze_job_match",
                                        !.ai = TRUE, !.ai_model = hasModel,
                                        !.candidates = resumes]
                       ELSE [run EXCEPT !.pc = "apply", !.ai = TRUE, !.ai_model = hasModel,
                                        !.candidates = resumes, !.resume = chosen]]
           ELSE \* applicator.py:828-835: the file comes from resume_used or the
                \* profile's resume_url, no candidate is selected
                /\ runs' = [runs EXCEPT ![r].pc = "apply", ![r].ai = env.has_key,
                                        ![r].ai_model = env.has_key /\ hasModel,
                                        ![r].candidates = resumes]
                /\ UNCHANGED <<rate_limit_store, granted, last>>
        /\ UNCHANGED <<now, thr, env, app, req>>

(***************************************************************************)
(* apply_linkedin, apply_indeed  (applicator.py:213-307)                   *)
(***************************************************************************)
ErrorEntry == Entry("Error: exception", 0)

\* applicator.py:216-241, up to the call of _fill_linkedin_form.
\*   o = "auth_raises"   _authenticate_linkedin raised
\*       "get_raises"    driver.get(job_url) raised
\*       "no_button"     no Easy Apply button was found
\*       "click_raises"  clicking it raised
\*       "clicked"       it was clicked
LinkedinStartOutcomes == {"auth_raises", "get_raises", "no_button", "click_raises", "clicked"}
LinkedinStartLog(o) ==
    CASE o = "auth_raises" -> <<ErrorEntry>>
      [] o = "get_raises" ->
            <<Entry("Opening LinkedIn job", 0), ErrorEntry>>
      [] o = "no_button" ->
            <<Entry("Opening LinkedIn job", 0), Entry("Looking for Easy Apply button", 0),
              Entry("Error: Could not find Easy Apply button", 0)>>
      [] o = "click_raises" ->
            <<Entry("Opening LinkedIn job", 0), Entry("Looking for Easy Apply button", 0),
              ErrorEntry>>
      [] o = "clicked" ->
            <<Entry("Opening LinkedIn job", 0), Entry("Looking for Easy Apply button", 0),
              Entry("Clicked Easy Apply", 0), Entry("Filling application form", 0)>>

\* applicator.py:276-307 apply_indeed, as a whole
\*   o = "no_button"   waiting for the Apply button timed out
\*       "form_error"  _fill_indeed_form raised
\*       "no_submit"   the submit button was not found
\*       "submitted"   the submit button was clicked
IndeedOutcomes == {"no_button", "form_error", "no_submit", "submitted"}
IndeedLog(o) ==
    CASE o = "no_button" ->
            <<Entry("Opening Indeed job", 0), Entry("Looking for Apply button", 0), ErrorEntry>>
      [] o = "form_error" ->
            <<Entry("Opening Indeed job", 0), Entry("Looking for Apply button", 0),
              Entry("Clicked Apply Now", 0), Entry("Filling application form", 0),
              Entry("Form filling error", 0), ErrorEntry>>
      [] o = "no_submit" ->
            <<Entry("Opening Indeed job", 0), Entry("Looking for Apply button", 0),
              Entry("Clicked Apply Now", 0), Entry("Filling application form", 0),
              Entry("Resume uploaded", 0), ErrorEntry>>
      [] o = "submitted" ->
            <<Entry("Opening Indeed job", 0), Entry("Looking for Apply button", 0),
              Entry("Clicked Apply Now", 0), Entry("Filling application form", 0),
              Entry("Resume uploaded", 0), Entry("Application submitted successfully", 0)>>

\* applicator.py:855-869: apply by job source
RunApply(r, lo, io) ==
    LET run == runs[r] IN
    /\ run.pc = "apply"
    /\ runs' = [runs EXCEPT ![r] =
          CASE env.source = "linkedin" ->
                  IF lo = "clicked"
                  THEN [run EXCEPT !.pc = "loop", !.log = LinkedinStartLog(lo)]
                  ELSE [run EXCEPT !.pc = "finish", !.log = LinkedinStartLog(lo)]
            [] env.source = "indeed" ->
                  [run EXCEPT !.pc = "finish", !.log = IndeedLog(io),
                              !.success = (io = "submitted"),
                              !.submit_clicked = (io = "submitted")]
            [] OTHER ->
                  [run EXCEPT !.pc = "finish",
                              !.log = <<Entry("Unsupported job source", 0)>>]]
    /\ UNCHANGED <<rateVars, env, app, req>>

(***************************************************************************)
(* _fill_linkedin_form and its handlers  (applicator.py:309-730)           *)
(*   A page is what the browser shows in one iteration:                    *)
(*     resume, questions  the category markers found                       *)
(*     ctl                the advance controls present                     *)
(*     raises             the advance click raises                         *)
(*     rcase              what the resume handler meets                    *)
(*     qs, reply, fill_fails  the scraped questions, the model's reply,    *)
(*                        and whether filling a field raises               *)
(***************************************************************************)
\* applicator.py:309-407 _handle_resume_step: the entries it appends
ResumeCases == {"most_recent", "preselected", "first", "upload", "no_input", "no_path"}
ResumeLog(rcase) ==
    CASE rcase = "most_recent" ->
            <<Entry("Found resume(s) on LinkedIn", 0), Entry("Selected most recently used resume", 0)>>
      [] rcase = "preselected" ->
            <<Entry("Found resume(s) on LinkedIn", 0), Entry("Keeping pre-selected resume", 0)>>
      [] rcase = "first" ->
            <<Entry("Found resume(s) on LinkedIn", 0), Entry("Selected first available resume", 0)>>
      [] rcase = "upload" -> <<Entry("Uploaded resume via file input", 0)>>
      [] rcase = "no_input" -> <<Entry("No file input found for resume upload", 0)>>
      [] rcase = "no_path" -> <<Entry("No resume path available and no LinkedIn resumes found", 0)>>

\* applicator.py:545-554: the answer applied to question q under the
\* id -> answer map m; skip: the question is passed over (`continue`)
Yes == <<"Y", "e", "s">>
AnswerFor(q, m) ==
    IF q.id \in DOMAIN m /\ m[q.id] \notin {StrVal(<<>>), NullVal}
    THEN [skip |-> FALSE, value |-> m[q.id]]
    ELSE IF q.type = "select" /\ q.options # <<>>
    THEN [skip |-> FALSE,
          value |-> IF Yes \in Range(q.options) THEN StrVal(Yes) ELSE StrVal(q.options[1])]
    ELSE [skip |-> TRUE, value |-> NullVal]

\* applicator.py:543-593: the entries appended while applying the answers,
\* from question i on; m is the id -> answer map
RECURSIVE FillLog(_, _, _, _)
FillLog(qs, m, fillFails, i) ==
    IF i > Len(qs) THEN <<>>
    ELSE LET q == qs[i]
             this == IF AnswerFor(q, m).skip THEN <<>>
                     ELSE IF fillFails THEN <<Entry("Failed to fill", i)>>
                     ELSE CASE q.type = "select" -> <<Entry("Selected", i)>>
                            [] q.type = "radio" -> <<Entry("Selected radio", i)>>
                            [] q.type = "text" -> <<Entry("Entered text", i)>>
                            [] q.type = "checkbox" -> <<Entry("Checked checkbox", i)>>
         IN  this \o FillLog(qs, m, fillFails, i + 1)

\* applicator.py:514-593 _handle_additional_questions: [log, raised];
\* e is the Effects record of the answer call (used when ai_service is set)
HandleQuestionsStrict(ai, e, qs, fillFails) ==
    [log |-> <<Entry("No form questions found on this step", 0)>>, raised |-> TRUE]
HandleQuestions(ai, e, qs, fillFails) ==
    IF qs = <<>>
    THEN [log |-> <<Entry("No form questions found on this step", 0)>>, raised |-> FALSE]
    ELSE IF ~ai
    THEN [log |-> <<Entry("Found form question(s)", Len(qs)),
                    Entry("No AI service available, using fallback answers", 0)>>
                  \o FillLog(qs, EmptyMap, fillFails, 1),
          raised |-> FALSE]
    ELSE IF e.ret.kind = "array"
    \* answers.get on a list raises AttributeError, which the handler does not catch
    THEN [log |-> <<Entry("Found form question(s)", Len(qs)), Entry("AI provided answer(s)", 0)>>,
          raised |-> TRUE]
    ELSE [log |-> <<Entry("Found form question(s)", Len(qs)),
                    Entry("AI provided answer(s)", Cardinality(DOMAIN e.ret.map))>>
                  \o FillLog(qs, e.ret.map, fillFails, 1),
          raised |-> FALSE]

Controls == {"submit", "review", "next"}
PlainPages ==
    {[resume |-> FALSE, questions |-> FALSE, ctl |-> c, raises |-> x,
      rcase |-> "no_path", qs |-> <<>>, reply |-> Raise, fill_fails |-> FALSE] :
        c \in SUBSET Controls, x \in BOOLEAN}
PageQuestions ==
    {<<>>, OneQuestion,
     <<[id |-> "q0", type |-> "select", options |-> <<<<"Y">>, <<"1">>>>]>>}
PageReplies ==
    {Raise, [kind |-> "array"], [kind |-> "object", map |-> [x \in {"q0"} |-> StrVal(<<"y">>)]]}
\* the marked pages show one advance control or none
MarkedControls == {{}, {"next"}, {"submit"}}
MarkedPages ==
    {[resume |-> TRUE, questions |-> q, ctl |-> c, raises |-> FALSE,
      rcase |-> rc, qs |-> <<>>, reply |-> Raise, fill_fails |-> FALSE] :
        q \in BOOLEAN, c \in MarkedControls, rc \in ResumeCases}
    \cup
    {[resume |-> FALSE, questions |-> TRUE, ctl |-> c, raises |-> FALSE,
      rcase |-> "no_path", qs |-> <<>>, reply |-> Raise, fill_fails |-> FALSE] :
        c \in MarkedControls}
    \cup
    {[resume |-> FALSE, questions |-> TRUE, ctl |-> c, raises |-> FALSE,
      rcase |-> "no_path", qs |-> qs, reply |-> rp, fill_fails |-> ff] :
        c \in MarkedControls, qs \in PageQuestions \ {<<>>}, rp \in PageReplies,
        ff \in BOOLEAN}
AllPages == PlainPages \cup MarkedPages
\* the plain pages on which the step loop ends
EndPages == {p \in PlainPages : p.ctl # {"next"} \/ p.raises}

\* applicator.py:600: for step in range(max_steps)
LoopForever(step) == TRUE
LoopContinues(step) == step < max_steps

\* applicator.py:600-730: one iteration of the step loop on page p; a run
\* meets fewer than cap pages that carry a resume or a question marker
FormIteration(r, p, cap) ==
    LET run == runs[r]
        k == run.step + 1
        e == AnswerFormQuestions(run.ai_model, 1, rate_limit_store, now, p.qs, p.reply)
        asks == p.questions /\ ~p.resume
        calls == asks /\ p.qs # <<>> /\ run.ai
        h == IF asks THEN HandleQuestions(run.ai, e, p.qs, p.fill_fails)
             ELSE [log |-> <<>>, raised |-> FALSE]
        log1 == run.log
                \o (IF p.resume
                    THEN <<Entry("Resume step detected", k)>> \o ResumeLog(p.rcase)
                    ELSE <<>>)
                \o (IF asks THEN <<Entry("Additional questions detected", k)>> ELSE <<>>)
                \o h.log
        final == "submit" \in p.ctl \/ "review" \in p.ctl
        base == [run EXCEPT !.step = k,
                            !.marked = @ + (IF p.resume \/ p.questions THEN 1 ELSE 0)]
    IN  /\ run.pc = "loop"
        /\ LoopContinues(run.step)
        /\ (p.resume \/ p.questions) => run.marked < cap
        /\ IF calls
           THEN Record("form_questions", 1, p.qs, p.reply, e)
           ELSE UNCHANGED <<rate_limit_store, granted, last>>
        /\ runs' = [runs EXCEPT ![r] =
              IF h.raised
              THEN \* applicator.py:271-274: apply_linkedin catches it
                   [base EXCEPT !.pc = "finish", !.exit = "raised",
                                !.log = log1 \o <<ErrorEntry>>]
              ELSE IF final
              THEN \* applicator.py:686-708
                   IF "review" \in p.ctl
                   THEN IF p.raises
                        THEN [base EXCEPT !.pc = "finish", !.exit = "click_raised",
                                 !.log = log1 \o <<Entry("Reached final step", k), ErrorEntry>>]
                        ELSE [base EXCEPT !.pc = "submit", !.exit = "final",
                                 !.log = log1 \o <<Entry("Reached final step", k),
                                                   Entry("Clicked Review", 0)>>]
                   ELSE [base EXCEPT !.pc = "submit", !.exit = "final",
                                     !.log = log1 \o <<Entry("Reached final step", k)>>]
              ELSE IF "next" \in p.ctl
              THEN \* applicator.py:710-726
                   IF p.raises
                   THEN [base EXCEPT !.pc = "finish", !.exit = "click_raised",
                                     !.log = log1 \o <<ErrorEntry>>]
                   ELSE [base EXCEPT !.log = log1 \o <<Entry("Clicked Next", k)>>]
              ELSE \* applicator.py:728-730
                   [base EXCEPT !.pc = "submit", !.exit = "stuck",
                                !.log = log1 \o <<Entry("No Next/Continue/Submit button found", k)>>]]
        /\ UNCHANGED <<now, thr, env, app, req>>

FormStep(r, p) == FormIteration(r, p, MaxMarked)

\* applicator.py:600: range(max_steps) is exhausted, the loop ends
FormLoopEnd(r) ==
    /\ runs[r].pc = "loop"
    /\ ~LoopContinues(runs[r].step)
    /\ runs' = [runs EXCEPT ![r].pc = "submit", ![r].exit = "exhausted"]
    /\ UNCHANGED <<rateVars, env, app, req>>

\* applicator.py:243-269: the final submit
\*   o = "clicked"       a submit button became clickable and was clicked
\*       "absent"        none of the selectors became clickable
\*       "click_raises"  the click raised
SubmitOutcomes == {"clicked", "absent", "click_raises"}
\* the same without the test of `submitted` (applicator.py:264-266)
FormSubmitUnchecked(r, o) ==
    LET run == runs[r]
        log1 == Append(run.log, Entry("Submitting application", 0))
    IN  /\ run.pc = "submit"
        /\ runs' = [runs EXCEPT ![r] =
              CASE o = "clicked" ->
                      [run EXCEPT !.pc = "finish", !.success = TRUE, !.submit_clicked = TRUE,
                         !.log = Append(log1, Entry("Application submitted successfully", 0))]
                [] o = "absent" ->
                      [run EXCEPT !.pc = "finish", !.success = TRUE,
                         !.log = Append(log1, Entry("Application submitted successfully", 0))]
                [] o = "click_raises" ->
                      [run EXCEPT !.pc = "finish", !.log = Append(log1, ErrorEntry)]]
        /\ UNCHANGED <<rateVars, env, app, req>>
FormSubmit(r, o) ==
    LET run == runs[r]
        log1 == Append(run.log, Entry("Submitting application", 0))
    IN  /\ run.pc = "submit"
        /\ runs' = [runs EXCEPT ![r] =
              CASE o = "clicked" ->
                      [run EXCEPT !.pc = "finish", !.success = TRUE, !.submit_clicked = TRUE,
                         !.log = Append(log1, Entry("Application submitted successfully", 0))]
                [] o = "absent" ->
                      [run EXCEPT !.pc = "finish",
                         !.log = Append(log1, Entry("Error: Could not find Submit button", 0))]
                [] o = "click_raises" ->
                      [run EXCEPT !.pc = "finish", !.log = Append(log1, ErrorEntry)]]
        /\ UNCHANGED <<rateVars, env, app, req>>

(***************************************************************************)
(* apply_to_job_task, continued: recording the outcome                     *)
(***************************************************************************)
\* applicator.py:747-762 _capture_screenshot: a URL only when a session is
\* held and save_screenshot succeeds (shotOk)
CaptureScreenshot(driver, shotOk) == driver /\ shotOk

\* applicator.py:871-885: write the outcome and the log, commit
RunFinish(r, shotOk) ==
    LET run == runs[r]
        row == app[run.app]
    IN  /\ run.pc = "finish"
        /\ IF row.exists
           THEN /\ app' = [app EXCEPT ![run.app] =
                      IF run.success
                      THEN [row EXCEPT !.status = APPLIED, !.applied_at = TRUE,
                                       !.automation_log = run.log, !.has_log = TRUE]
                      ELSE [row EXCEPT !.status = FAILED,
                                       !.error_message = "Application automation failed",
                                       !.screenshot_url = @ \/ CaptureScreenshot(run.driver, shotOk),
                                       !.automation_log = run.log, !.has_log = TRUE]]
                /\ runs' = [runs EXCEPT ![r].pc = "finally",
                                        ![r].committed = IF run.success THEN APPLIED ELSE FAILED,
                                        ![r].shot_tried = ~run.success]
           ELSE \* the row was deleted meanwhile: the UPDATE of db.commit() (885)
                \* matches no row, nothing is written and the commit raises
                /\ runs' = [runs EXCEPT ![r].pc = "except", ![r].cause = "commit",
                                        ![r].shot_tried = ~run.success]
                /\ UNCHANGED app
        /\ UNCHANGED <<rateVars, env, req>>

\* applicator.py:889-901: an exception escaped the try block
\* the same with a _capture_screenshot that lets the failure out: the handler
\* is left before db.commit() (901)
RunExceptEscalating(r, shotOk) ==
    LET run == runs[r]
        row == app[run.app]
    IN  /\ run.pc = "except"
        /\ IF row.exists /\ (run.driver => shotOk)
           THEN /\ app' = [app EXCEPT ![run.app] =
                      [row EXCEPT !.status = FAILED, !.error_message = run.cause,
                                  !.screenshot_url = @ \/ CaptureScreenshot(run.driver, shotOk)]]
                /\ runs' = [runs EXCEPT ![r].pc = "finally", ![r].committed = FAILED,
                                        ![r].shot_tried = TRUE]
           ELSE /\ runs' = [runs EXCEPT ![r].pc = "finally", ![r].shot_tried = TRUE]
                /\ UNCHANGED app
        /\ UNCHANGED <<rateVars, env, req>>
RunExcept(r, shotOk) ==
    LET run == runs[r]
        row == app[run.app]
    IN  /\ run.pc = "except"
        /\ IF row.exists
           THEN /\ app' = [app EXCEPT ![run.app] =
                      [row EXCEPT !.status = FAILED, !.error_message = run.cause,
                                  !.screenshot_url = @ \/ CaptureScreenshot(run.driver, shotOk)]]
                /\ runs' = [runs EXCEPT ![r].pc = "finally", ![r].committed = FAILED,
                                        ![r].shot_tried = TRUE]
           ELSE \* the row was deleted meanwhile: db.commit() (901) writes nothing
                \* and raises out of the handler; finally still runs
                /\ runs' = [runs EXCEPT ![r].pc = "finally", ![r].shot_tried = TRUE]
                /\ UNCHANGED app
        /\ UNCHANGED <<rateVars, env, req>>

\* applicator.py:903-906: finally
RunFinallyNoClose(r, quitOk) ==
    /\ runs[r].pc = "finally"
    /\ runs' = [runs EXCEPT ![r] = Returned(runs[r])]
    /\ UNCHANGED <<rateVars, env, app, req>>
RunFinally(r, quitOk) ==
    LET run == runs[r] IN
    /\ run.pc = "finally"
    /\ runs' = [runs EXCEPT ![r] =
          IF run.applicator
          THEN Returned(AfterClose(run, CloseDriver(run.driver, quitOk)))
          ELSE Returned(run)]
    /\ UNCHANGED <<rateVars, env, app, req>>

\* applicator.py:115-119: _close_driver called once more on the applicator of
\* a run that has returned
CloseDriverAgain(r, quitOk) ==
    LET run == runs[r] IN
    /\ run.pc = "returned"
    /\ run.applicator
    /\ run.closes < MaxCloses
    /\ runs' = [runs EXCEPT ![r] = AfterClose(run, CloseDriver(run.driver, quitOk))]
    /\ UNCHANGED <<rateVars, env, app, req>>

(***************************************************************************)
(* Spec: the lifecycle of an application under apply_to_job requests,      *)
(* Celery dispatches and up to MaxRuns interleaved runs of the engine,     *)
(* on forms whose first page ends the step loop and with an AI service     *)
(* whose model was configured                                              *)
(***************************************************************************)
Sources == {"linkedin", "indeed", "glassdoor"}
InitTask ==
    /\ now = 0
    /\ rate_limit_store = [u \in UserIds |-> <<>>]
    /\ granted = [u \in UserIds |-> <<>>]
    /\ last = NoCall
    /\ thr = [t \in ThreadIds |-> IdleThread]
    \* the description is read only by the AI service
    /\ env \in {e \in [source : Sources, has_key : BOOLEAN, desc_absent : BOOLEAN] :
                    e.desc_absent => e.has_key}
    /\ app = [a \in AppIds |-> NoApp]
    /\ runs = [r \in RunIds |-> FreeRun]
    /\ req = "none"

Next ==
    \/ ApplyToJob
    \/ \E a \in AppIds, userOk \in BOOLEAN, jobOk \in BOOLEAN : CeleryDispatch(a, userOk, jobOk)
    \/ \E r \in RunIds : RunLoad(r)
    \/ \E r \in RunIds, o \in InitOutcomes : RunInitDriver(r, o)
    \/ \E r \in RunIds, resumes \in {<<>>, <<1>>} :
           RunSelectResume(r, TRUE, resumes, Raise)
    \/ \E r \in RunIds, lo \in LinkedinStartOutcomes, io \in IndeedOutcomes : RunApply(r, lo, io)
    \/ \E r \in RunIds, p \in EndPages : FormStep(r, p)
    \/ \E r \in RunIds, o \in SubmitOutcomes : FormSubmit(r, o)
    \/ \E r \in RunIds, shotOk \in BOOLEAN : RunFinish(r, shotOk)
    \/ \E r \in RunIds, shotOk \in BOOLEAN : RunExcept(r, shotOk)
    \/ \E r \in RunIds, quitOk \in BOOLEAN : RunFinally(r, quitOk)
    \/ \E r \in RunIds, quitOk \in BOOLEAN : CloseDriverAgain(r, quitOk)

Spec == InitTask /\ [][Next]_vars

(***************************************************************************)
(* SpecForm: one run of the engine over every kind of form page            *)
(***************************************************************************)
NextForm ==
    \/ RunLoad(1)
    \/ \E o \in InitOutcomes : RunInitDriver(1, o)
    \/ \E hasModel \in BOOLEAN, resumes \in {<<>>, <<1>>} :
           RunSelectResume(1, hasModel, resumes, Raise)
    \/ \E lo \in LinkedinStartOutcomes, io \in IndeedOutcomes : RunApply(1, lo, io)
    \/ \E p \in AllPages : FormStep(1, p)
    \/ FormLoopEnd(1)
    \/ \E o \in SubmitOutcomes : FormSubmit(1, o)
    \/ \E shotOk \in BOOLEAN : RunFinish(1, shotOk)
    \/ \E shotOk \in BOOLEAN : RunExcept(1, shotOk)
    \/ \E quitOk \in BOOLEAN : RunFinally(1, quitOk)

\* apply_to_job has created the application for a LinkedIn job that has a
\* description, and has queued the task
InitForm ==
    /\ now = 0
    /\ rate_limit_store = [u \in UserIds |-> <<>>]
    /\ granted = [u \in UserIds |-> <<>>]
    /\ last = NoCall
    /\ thr = [t \in ThreadIds |-> IdleThread]
    /\ env \in [source : {"linkedin"}, has_key : BOOLEAN, desc_absent : {FALSE}]
    /\ app = [a \in AppIds |-> IF a = 1 THEN [NoApp EXCEPT !.exists = TRUE] ELSE NoApp]
    /\ runs = [r \in RunIds |-> IF r = 1 THEN [FreeRun EXCEPT !.pc = "queued"] ELSE FreeRun]
    /\ req = "created"

SpecForm == InitForm /\ [][NextForm]_vars

(***************************************************************************)
(* C1. Whenever apply_to_job_task returns for an application record that   *)
(* exists, the run has persisted an outcome on it: applied or failed.      *)
(***************************************************************************)
\* C1: a run that found its application record and has returned has committed
\* status applied or failed
OutcomePersisted ==
    \A r \in RunIds :
        (runs[r].pc = "returned" /\ runs[r].found) => runs[r].committed \in {APPLIED, FAILED}

(***************************************************************************)
(* C4. A run that constructed the applicator and called _init_driver has   *)
(* called _close_driver by the time it returns; once a _close_driver call  *)
(* has returned normally the session handle is cleared, and a further call *)
(* neither quits the browser again nor raises.                             *)
(***************************************************************************)
\* C4: _close_driver runs before a run that opened a session returns, and is
\* idempotent after a close
DriverClosed ==
    \A r \in RunIds :
        /\ (runs[r].pc = "returned" /\ runs[r].applicator) => runs[r].closes >= 1
        /\ runs[r].closed_ok => ~runs[r].driver
        /\ runs[r].late_quits = 0
        /\ ~runs[r].late_raise

\* _init_driver raised holding a session; finally closed it, quitting once,
\* and a second _close_driver call returned without quitting
DriverClosedWitness ==
    \E r \in RunIds :
        /\ runs[r].pc = "returned" /\ runs[r].cause = "init_driver"
        /\ runs[r].closes = 2 /\ runs[r].quits = 1
        /\ runs[r].closed_ok /\ ~runs[r].driver

(***************************************************************************)
(* C5. No two executions of apply_to_job_task are under way for the same   *)
(* application at the same time.                                           *)
(***************************************************************************)
\* a run is under way from the commit of in_progress until it returns
UnderWay(r) == runs[r].pc \notin {"free", "queued", "returned"}

\* C5: at no time are two runs under way for the same application
SingleRunPerApplication ==
    \A r1 \in RunIds, r2 \in RunIds :
        (r1 # r2 /\ UnderWay(r1) /\ UnderWay(r2)) => runs[r1].app # runs[r2].app

(***************************************************************************)
(* C6. The status of an application changes only along                     *)
(* pending -> in_progress -> applied | failed and failed -> pending.       *)
(***************************************************************************)
Lifecycle ==
    {<<PENDING, IN_PROGRESS>>, <<IN_PROGRESS, APPLIED>>, <<IN_PROGRESS, FAILED>>,
     <<FAILED, PENDING>>}
StatusStep ==
    \A a \in AppIds :
        (app[a].exists /\ app'[a].status # app[a].status) =>
            <<app[a].status, app'[a].status>> \in Lifecycle

\* C6: every change of an existing application's status is a lifecycle step
StatusLifecycle == [][StatusStep]_vars

(***************************************************************************)
(* C2. The step loop of _fill_linkedin_form begins at most max_steps       *)
(* iterations, whatever the pages show, and ends by exhaustion only after  *)
(* exactly max_steps of them.                                              *)
(***************************************************************************)
\* C2: at most 10 iterations are begun; the loop ends by exhaustion only
\* after the 10th
StepLoopBounded ==
    \A r \in RunIds :
        /\ runs[r].step <= max_steps
        /\ runs[r].exit = "exhausted" => runs[r].step = max_steps
        /\ runs[r].exit # "none" => runs[r].pc # "loop"

\* ten pages in a row offered a Next control that was clicked; the loop ended
StepLoopBoundedWitness ==
    /\ runs[1].pc = "submit" /\ runs[1].exit = "exhausted" /\ runs[1].step = max_steps
    /\ Count([i \in DOMAIN runs[1].log |-> runs[1].log[i].msg], "Clicked Next") = max_steps

(***************************************************************************)
(* C3. A run whose step loop ended at the cap ends with status failed and  *)
(* an explicit "step limit exceeded" entry in its log.                     *)
(***************************************************************************)
\* C3: a run whose loop was exhausted commits failed with a log that holds
\* a "step limit exceeded" entry
StepCapIsFailure ==
    \A r \in RunIds :
        (runs[r].pc = "finally" /\ runs[r].exit = "exhausted") =>
            /\ runs[r].committed = FAILED
            /\ \E i \in DOMAIN runs[r].log : runs[r].log[i].msg = "step limit exceeded"

(***************************************************************************)
(* SpecSelect: one run of the engine for a user with up to MaxResumes      *)
(* resumes, over every reply to the ranking prompt, with the user's window *)
(* empty or full, on a form whose first page ends the step loop            *)
(***************************************************************************)
MaxResumes == 2
ResumeIds == 1..MaxResumes
\* applicator.py:809-812 resumes_data: the ids, in the order of user.resumes
ResumeLists ==
    UNION {{l \in [1..n -> ResumeIds] : \A i, j \in 1..n : i # j => l[i] # l[j]} :
           n \in 0..MaxResumes}
\* ai.py:113-115: the reply to the ranking prompt; the id MaxResumes + 1 is
\* the id of no candidate
MatchReplies ==
    {Raise, [kind |-> "text"]} \cup {[kind |-> "int", id |-> i] : i \in 1..(MaxResumes + 1)}

InitSelect ==
    /\ now = 0
    /\ \E w \in {<<>>, FullWindow} :
           /\ rate_limit_store = [u \in UserIds |-> IF u = 1 THEN w ELSE <<>>]
           /\ granted = rate_limit_store
    /\ last = NoCall
    /\ thr = [t \in ThreadIds |-> IdleThread]
    /\ env \in {e \in [source : {"linkedin"}, has_key : BOOLEAN, desc_absent : BOOLEAN] :
                    e.desc_absent => e.has_key}
    /\ app = [a \in AppIds |-> IF a = 1 THEN [NoApp EXCEPT !.exists = TRUE] ELSE NoApp]
    /\ runs = [r \in RunIds |-> IF r = 1 THEN [FreeRun EXCEPT !.pc = "queued"] ELSE FreeRun]
    /\ req = "created"

NextSelect ==
    \/ RunLoad(1)
    \/ \E o \in InitOutcomes : RunInitDriver(1, o)
    \/ \E hasModel \in BOOLEAN, resumes \in ResumeLists, reply \in MatchReplies :
           RunSelectResume(1, hasModel, resumes, reply)
    \/ \E lo \in LinkedinStartOutcomes, io \in IndeedOutcomes : RunApply(1, lo, io)
    \/ \E p \in EndPages : FormStep(1, p)
    \/ \E o \in SubmitOutcomes : FormSubmit(1, o)
    \/ \E shotOk \in BOOLEAN : RunFinish(1, shotOk)
    \/ \E shotOk \in BOOLEAN : RunExcept(1, shotOk)
    \/ \E quitOk \in BOOLEAN : RunFinally(1, quitOk)

SpecSelect == InitSelect /\ [][NextSelect]_vars

(***************************************************************************)
(* C13. analyze_job_match returns None for no candidates; for candidates   *)
(* it returns the id of one of them (the only one, if there is one),       *)
(* whatever the reply and the state of the window; the resume the engine   *)
(* selects is one of the candidates.                                       *)
(***************************************************************************)
\* C13: a returned ranking is None for no candidates and else a candidate's
\* id, and the engine's selected resume is a candidate
MatchIsCandidate ==
    /\ \A hasModel \in BOOLEAN, reply \in MatchReplies :
          LET e == AnalyzeJobMatch(hasModel, 1, rate_limit_store, now, FALSE, <<>>, reply)
          IN  e.ret = [kind |-> "none"] /\ ~e.raised /\ ~e.called_model
    /\ (last.fn = "job_match" /\ ~last.raised /\ runs[1].pc # "returned") =>
          LET c == runs[1].candidates IN
          /\ c # <<>>
          /\ last.ret.kind = "id"
          /\ last.ret.id \in Range(c)
          /\ Len(c) = 1 => last.ret.id = c[1]
    /\ runs[1].resume # 0 => runs[1].resume \in Range(runs[1].candidates)

\* candidates 1 and 2, the model names id 3: the first candidate is returned
\* and selected
MatchIsCandidateWitness ==
    /\ last.fn = "job_match" /\ last.called_model
    /\ last.reply = [kind |-> "int", id |-> MaxResumes + 1]
    /\ runs[1].candidates = <<1, 2>>
    /\ last.ret = [kind |-> "id", id |-> 1]
    /\ runs[1].resume = 1

(***************************************************************************)
(* C14. When the ranking yields no valid id (no usable key, refused by the *)
(* rate limiter, error, unusable reply, id of no candidate) the resume     *)
(* selected is the first candidate in input order.                         *)
(***************************************************************************)
PastSelection(r) == runs[r].pc \in {"apply", "loop", "submit", "finish", "finally"}
NoValidId(r) ==
    \/ ~runs[r].ai
    \/ ~runs[r].ai_model
    \/ /\ last.fn = "job_match"
       /\ \/ ~last.allowed
          \/ last.reply.kind # "int"
          \/ last.reply.id \notin Range(runs[r].candidates)

\* C14: with candidates and no valid id from the ranking, the selected
\* resume is the first candidate
FallbackIsFirstCandidate ==
    (PastSelection(1) /\ runs[1].candidates # <<>> /\ NoValidId(1)) =>
        runs[1].resume = runs[1].candidates[1]

(***************************************************************************)
(* C12. No AI entry point raises to its caller, so no run fails because of *)
(* the AI service.                                                         *)
(***************************************************************************)
\* C12: no call of an AI entry point has raised and no run took the except
\* path because of the ranking call
AICallsNeverRaise ==
    /\ ~last.raised
    /\ \A r \in RunIds : runs[r].cause # "analyze_job_match"

(***************************************************************************)
(* C11. When the answer call is refused by the rate limiter or the reply   *)
(* is no JSON object, answer_form_questions returns an empty map and the   *)
(* step goes on to the advance controls.                                   *)
(***************************************************************************)
AnswerFailureStep ==
    (/\ last' # last
     /\ last'.fn = "form_questions"
     /\ (~last'.allowed \/ last'.reply.kind # "object")) =>
        /\ last'.ret = MapRet(EmptyMap)
        /\ runs'[1].exit # "raised"
        /\ runs'[1].pc \in {"loop", "submit"}

\* C11: every step whose answer call yields no id-to-answer map gets an
\* empty map and continues
AnswerFailureTolerated == [][AnswerFailureStep]_vars

(***************************************************************************)
(* C15. A step without questions causes no AI call.                        *)
(***************************************************************************)
HasMsg(log, m) == \E i \in DOMAIN log : log[i].msg = m
NoQuestionsMsg == "No form questions found on this step"
NoQuestionsStep ==
    (~HasMsg(runs[1].log, NoQuestionsMsg) /\ HasMsg(runs'[1].log, NoQuestionsMsg)) =>
        /\ UNCHANGED <<rate_limit_store, granted, last>>
        /\ runs'[1].exit # "raised"
        /\ runs'[1].pc \in {"loop", "submit"}
        /\ \A hasModel \in BOOLEAN, reply \in PageReplies :
              AnswerFormQuestions(hasModel, 1, rate_limit_store, now, <<>>, reply)
                  = Effects(FALSE, TRUE, rate_limit_store, FALSE, <<>>, MapRet(EmptyMap), FALSE)

\* C15: a step on which no question is scraped makes no call, takes no
\* rate-limit slot, writes no usage record and goes on to advance; the answer
\* call on an empty list returns an empty map with no effect
NoQuestionsNoCall == [][NoQuestionsStep]_vars

\* a run with a configured AI service met a questions page without questions
\* and clicked Next; no answer call was made
NoQuestionsNoCallWitness ==
    /\ runs[1].ai /\ runs[1].ai_model
    /\ HasMsg(runs[1].log, NoQuestionsMsg)
    /\ HasMsg(runs[1].log, "Clicked Next")
    /\ last.fn # "form_questions"
    /\ rate_limit_store[1] = <<>>

(***************************************************************************)
(* C16. When _init_driver raises, the run ends failed with the exception   *)
(* of the session opening as its error, no log, no AI call, no page        *)
(* visited, and _close_driver called exactly once.                         *)
(***************************************************************************)
\* C16: a run whose session opening raised records failed with that error,
\* attaches no log entries, makes no AI call or navigation and calls
\* _close_driver once
SessionOpenFailure ==
    runs[1].cause = "init_driver" =>
        /\ runs[1].pc \in {"except", "finally", "returned"}
        /\ runs[1].step = 0 /\ runs[1].log = <<>> /\ ~runs[1].ai
        /\ last = NoCall /\ rate_limit_store[1] = <<>>
        /\ ~app[1].has_log /\ app[1].automation_log = <<>>
        /\ runs[1].pc # "except" =>
              /\ runs[1].committed = FAILED
              /\ app[1].status = FAILED
              /\ app[1].error_message = "init_driver"
        /\ runs[1].closes = IF runs[1].pc = "returned" THEN 1 ELSE 0

\* the session opening raised; the run has returned, failed, after one close
SessionOpenFailureWitness ==
    /\ runs[1].pc = "returned" /\ runs[1].cause = "init_driver"
    /\ app[1].status = FAILED /\ app[1].error_message = "init_driver"
    /\ runs[1].closes = 1

(***************************************************************************)
(* C17. A run that ends failed stores the specific error that stopped it   *)
(* as the error description, and a screenshot was attempted.               *)
(***************************************************************************)
\* the error that stopped the run: the exception that reached the task, or
\* the last entry the applying code logged
LowestLevelCause(run) ==
    IF run.cause # "none" THEN run.cause ELSE run.log[Len(run.log)].msg

\* C17: a failed run's error_message is its lowest-level cause and a
\* screenshot capture was attempted
FailureHoldsCause ==
    (runs[1].pc = "finally" /\ runs[1].committed = FAILED) =>
        /\ runs[1].shot_tried
        /\ app[1].error_message = LowestLevelCause(runs[1])

(***************************************************************************)
(* C19. A run that ends applied or failed attaches its log, exactly as     *)
(* recorded, to the application.                                           *)
(***************************************************************************)
\* C19: after the outcome is committed the application holds the run's log
LogAttached ==
    (runs[1].pc = "finally" /\ runs[1].committed \in {APPLIED, FAILED}) =>
        /\ app[1].has_log
        /\ app[1].automation_log = runs[1].log

(***************************************************************************)
(* C20. The entry describing an action is in the log before the action is  *)
(* performed, so it is there when the action raises.                       *)
(***************************************************************************)
\* C20: when the click on Next or Review raised, the log holds the entry
\* of that click for that step
IntentLogged ==
    (runs[1].exit = "click_raised" /\ runs[1].pc # "returned") =>
        \E i \in DOMAIN runs[1].log :
            \/ runs[1].log[i] = Entry("Clicked Next", runs[1].step)
            \/ runs[1].log[i] = Entry("Clicked Review", 0)

(***************************************************************************)
(* SpecBudget: one run of the engine against the clock, dispatched by      *)
(* apply_to_job (FastAPI BackgroundTasks) or as the Celery task            *)
(* 'apply_to_job', whose worker enforces the task time limits              *)
(***************************************************************************)
\* celery_worker.py:22  task_time_limit (seconds)
task_time_limit == 1800
\* celery_worker.py:23  task_soft_time_limit (seconds)
task_soft_time_limit == 1500

\* celery_worker.py:39-42: the run was sent as the Celery task (no
\* apply_to_job request queued it); applications.py:50,77 queue it on
\* BackgroundTasks, which set no limit
ViaCelery == req = "none"

\* the clock, counted from the start of the run, reaches the next limit
ClockReachesLimit ==
    /\ runs[1].pc \notin {"free", "queued", "returned", "killed"}
    /\ now < task_time_limit
    /\ now' = IF now < task_soft_time_limit THEN task_soft_time_limit ELSE task_time_limit
    /\ UNCHANGED <<rate_limit_store, granted, last, thr, taskVars>>

\* celery_worker.py:23: at the soft limit the worker raises
\* SoftTimeLimitExceeded (an Exception) inside the task: inside apply_linkedin
\* it is caught at applicator.py:271-274, elsewhere in the try block it
\* reaches the except of apply_to_job_task.  Raised inside one of the inner
\* `except Exception` handlers (applicator.py:65, 186, 592) it is swallowed
\* there and the run goes on as it would have: that is the run's other actions
SoftTimeLimit(r) ==
    LET run == runs[r] IN
    /\ ViaCelery
    /\ now = task_soft_time_limit
    /\ run.pc \in {"select", "apply", "loop", "submit"}
    /\ runs' = [runs EXCEPT ![r] =
          IF run.pc \in {"loop", "submit"}
          THEN [run EXCEPT !.pc = "finish", !.exit = "raised",
                           !.log = Append(run.log, ErrorEntry)]
          ELSE [run EXCEPT !.pc = "except", !.cause = "soft_time_limit"]]
    /\ UNCHANGED <<rateVars, env, app, req>>

\* celery_worker.py:22: at the hard limit the worker kills the process that
\* executes the task; no statement of the task runs after that
HardTimeLimit(r) ==
    /\ ViaCelery
    /\ now = task_time_limit
    /\ runs[r].pc \notin {"free", "queued", "returned", "killed"}
    /\ runs' = [runs EXCEPT ![r].pc = "killed"]
    /\ UNCHANGED <<rateVars, env, app, req>>

InitBudget ==
    /\ now = 0
    /\ rate_limit_store = [u \in UserIds |-> <<>>]
    /\ granted = [u \in UserIds |-> <<>>]
    /\ last = NoCall
    /\ thr = [t \in ThreadIds |-> IdleThread]
    /\ env \in [source : {"linkedin"}, has_key : BOOLEAN, desc_absent : {FALSE}]
    /\ app = [a \in AppIds |-> IF a = 1 THEN [NoApp EXCEPT !.exists = TRUE] ELSE NoApp]
    /\ runs = [r \in RunIds |-> IF r = 1 THEN [FreeRun EXCEPT !.pc = "queued"] ELSE FreeRun]
    /\ req \in {"created", "none"}

NextBudget ==
    \/ ClockReachesLimit
    \/ SoftTimeLimit(1)
    \/ HardTimeLimit(1)
    \/ RunLoad(1)
    \/ \E o \in InitOutcomes : RunInitDriver(1, o)
    \/ \E resumes \in {<<>>, <<1>>} : RunSelectResume(1, TRUE, resumes, Raise)
    \/ \E lo \in LinkedinStartOutcomes, io \in IndeedOutcomes : RunApply(1, lo, io)
    \/ \E p \in EndPages : FormStep(1, p)
    \/ \E o \in SubmitOutcomes : FormSubmit(1, o)
    \/ \E shotOk \in BOOLEAN : RunFinish(1, shotOk)
    \/ \E shotOk \in BOOLEAN : RunExcept(1, shotOk)
    \/ \E quitOk \in BOOLEAN : RunFinally(1, quitOk)

SpecBudget == InitBudget /\ [][NextBudget]_vars

(***************************************************************************)
(* C21. A run cancelled at its wall-clock budget has still torn down its   *)
(* browser session.                                                        *)
(***************************************************************************)
\* C21: a run that was forcibly cancelled at the 30-minute limit holds no
\* browser session, and if it built an applicator _close_driver was called
TeardownOnCancel ==
    \A r \in RunIds :
        runs[r].pc = "killed" =>
            /\ ~runs[r].driver
            /\ runs[r].applicator => runs[r].closes >= 1

(***************************************************************************)
(* C22. apply_to_job on an existing application: a failed one is reset to  *)
(* pending, its error, log and applied_at cleared, and one run is queued;  *)
(* any other is rejected, nothing changes and nothing is queued.           *)
(***************************************************************************)
\* the runs queued by a step
NewlyQueued == {r \in RunIds : runs[r].pc = "free" /\ runs'[r].pc = "queued"}

\* a step of apply_to_job on an existing application: it changes the outcome
\* of the last request or takes the status from failed to pending
ApplyExistingStep ==
    (app[1].exists /\ (req' # req \/ (app[1].status = FAILED /\ app'[1].status = PENDING))) =>
        IF app[1].status = FAILED
        THEN /\ req' = "reset"
             /\ app' = [app EXCEPT ![1].status = PENDING,
                                   ![1].error_message = "None",
                                   ![1].has_log = FALSE,
                                   ![1].automation_log = <<>>,
                                   ![1].applied_at = FALSE]
             /\ Cardinality(NewlyQueued) = 1
             /\ \A r \in RunIds :
                   IF r \in NewlyQueued THEN runs'[r].app = 1 ELSE runs'[r] = runs[r]
        ELSE /\ req' = "rejected"
             /\ UNCHANGED <<app, runs>>

\* C22: apply_to_job resets a failed application and queues one run, and
\* rejects a request for an application in any other status without effect
RetryOnlyWhenFailed == [][ApplyExistingStep]_vars

\* a run ended failed, apply_to_job reset the application and queued a run
RetryOnlyWhenFailedWitness ==
    /\ req = "reset"
    /\ app[1].status = PENDING /\ app[1].error_message = "None"
    /\ ~app[1].has_log /\ ~app[1].applied_at
    /\ \E r1 \in RunIds, r2 \in RunIds :
          /\ runs[r1].pc = "returned" /\ runs[r1].committed = FAILED
          /\ runs[r2].pc = "queued" /\ runs[r2].app = 1

(***************************************************************************)
(* SpecOwner: one application under the requests of its owner              *)
(* (apply_to_job, update_application_status, delete_application) while     *)
(* the engine works on it                                                  *)
(***************************************************************************)
\* models.py:17-19 ApplicationStatus, the members set only by hand
REJECTED == "rejected"
INTERVIEW == "interview"
ACCEPTED == "accepted"
Statuses == {PENDING, IN_PROGRESS, APPLIED, FAILED, REJECTED, INTERVIEW, ACCEPTED}

\* applications.py:128-147 update_application_status, by user 1 on application 1
UpdateApplicationStatus(status) ==
    /\ IF app[1].exists
       THEN app' = [app EXCEPT ![1].status = status]
       ELSE \* HTTP 404
            UNCHANGED app
    /\ UNCHANGED <<rateVars, env, runs, req>>

\* applications.py:150-175 delete_application, by user 1 on application 1
DeleteApplication ==
    /\ IF app[1].exists /\ app[1].status \notin {APPLIED, INTERVIEW, ACCEPTED}
       THEN app' = [app EXCEPT ![1] = NoApp]
       ELSE \* HTTP 404 or 400
            UNCHANGED app
    /\ UNCHANGED <<rateVars, env, runs, req>>

\* the requests are those made while the application exists
NextOwner ==
    \/ app[1].exists /\ ApplyToJob
    \/ \E status \in {PENDING, FAILED, REJECTED} : UpdateApplicationStatus(status)
    \/ DeleteApplication
    \/ \E r \in RunIds : RunLoad(r)
    \/ \E r \in RunIds, o \in {"uc_ok", "uc_fail_grid_fail"} : RunInitDriver(r, o)
    \/ \E r \in RunIds : RunSelectResume(r, TRUE, <<>>, Raise)
    \/ \E r \in RunIds, lo \in {"no_button", "clicked"} : RunApply(r, lo, "submitted")
    \/ \E r \in RunIds, p \in EndPages : FormStep(r, p)
    \/ \E r \in RunIds, o \in SubmitOutcomes : FormSubmit(r, o)
    \/ \E r \in RunIds : RunFinish(r, TRUE)
    \/ \E r \in RunIds : RunExcept(r, TRUE)
    \/ \E r \in RunIds : RunFinally(r, TRUE)

InitOwner ==
    /\ now = 0
    /\ rate_limit_store = [u \in UserIds |-> <<>>]
    /\ granted = [u \in UserIds |-> <<>>]
    /\ last = NoCall
    /\ thr = [t \in ThreadIds |-> IdleThread]
    /\ env = [source |-> "linkedin", has_key |-> FALSE, desc_absent |-> FALSE]
    /\ app = [a \in AppIds |-> IF a = 1 THEN [NoApp EXCEPT !.exists = TRUE] ELSE NoApp]
    /\ runs = [r \in RunIds |-> IF r = 1 THEN [FreeRun EXCEPT !.pc = "queued"] ELSE FreeRun]
    /\ req = "created"

SpecOwner == InitOwner /\ [][NextOwner]_vars

(***************************************************************************)
(* C23. While an application is in_progress only the engine run that       *)
(* claimed it changes or removes the record.                               *)
(***************************************************************************)
\* a step that changes or removes an in_progress application is a step of a
\* run that has committed in_progress on it
InProgressOwnedStep ==
    (app[1].exists /\ app[1].status = IN_PROGRESS /\ app'[1] # app[1]) =>
        \E r \in RunIds :
            /\ runs[r].app = 1 /\ runs[r].committed = IN_PROGRESS
            /\ runs'[r] # runs[r]

\* C23: no request of the owner changes or removes an in_progress application
InProgressOwnedByEngine == [][InProgressOwnedStep]_vars

(***************************************************************************)
(* SpecPrompt: the prompt of answer_form_questions as a function of the    *)
(* user's profile row, over every stored cookie value                      *)
(***************************************************************************)
\* crypto.py:23-28: the ciphertext of a non-empty string
Encrypted(s) == [t |-> "enc", s |-> s]
\* crypto.py:31-40 decrypt_value: a falsy value is returned as it is, a
\* ciphertext is decrypted, anything else is taken for stored plaintext
DecryptValue(v) ==
    IF v = NullVal \/ v = StrVal(<<>>) THEN v
    ELSE IF v.t = "enc" THEN StrVal(v.s)
    ELSE v

\* the li_at values a profile may hold
Cookies == {<<"A">>, <<"B">>}
\* user_profiles.linkedin_cookies: absent, empty, encrypted, or plaintext
\* stored before encryption was introduced
StoredCookies ==
    {NullVal, StrVal(<<>>)} \cup {Encrypted(c) : c \in Cookies} \cup {StrVal(c) : c \in Cookies}
\* models.py:50-70 the row of user_profiles read by the task; exists = FALSE:
\* the user has no profile
ProfileRows ==
    [exists : {TRUE}, phone : {NullVal, StrVal(<<"5">>)},
     location : {NullVal, StrVal(<<"K">>)}, linkedin_url : {NullVal, StrVal(<<"u">>)},
     skills : {NullVal}, experience_years : {NullVal, IntVal},
     linkedin_cookies : StoredCookies]
    \cup
    [exists : {FALSE}, phone : {NullVal}, location : {NullVal}, linkedin_url : {NullVal},
     skills : {NullVal}, experience_years : {NullVal}, linkedin_cookies : {NullVal}]

\* applicator.py:845-853: the user_profile dict the task hands to the applicator
ProfileFields ==
    {"phone", "linkedin", "linkedin_cookies", "location", "skills", "experience_years"}
BuildUserProfile(profile) ==
    [k \in ProfileFields |->
        IF ~profile.exists THEN NullVal
        ELSE CASE k = "phone" -> profile.phone
               [] k = "linkedin" -> profile.linkedin_url
               [] k = "linkedin_cookies" ->
                     IF profile.linkedin_cookies \notin {NullVal, StrVal(<<>>)}
                     THEN DecryptValue(profile.linkedin_cookies) ELSE NullVal
               [] k = "location" -> profile.location
               [] k = "skills" -> profile.skills
               [] k = "experience_years" -> profile.experience_years]

\* ai.py:157: {k: v for k, v in user_profile.items() if k != 'linkedin_cookies'}
ProfileJsonAll(user_profile) == user_profile
ProfileJson(user_profile) ==
    [k \in DOMAIN user_profile \ {"linkedin_cookies"} |-> user_profile[k]]

\* ai.py:156-183: the sections of the prompt
Prompt(questions, job_description, resume_text, user_profile) ==
    [resume |-> IF resume_text # <<>> THEN resume_text ELSE <<"Not available">>,
     profile |-> ProfileJson(user_profile),
     description |-> IF job_description # <<>> THEN job_description ELSE <<"Not available">>,
     questions |-> questions]
NoPrompt == [resume |-> <<>>, profile |-> <<>>, description |-> <<>>, questions |-> <<>>]

\* the task's call of answer_form_questions on a question step (applicator.py:
\* 533-538): the call record and the prompt it sent to the model
PromptOf(profile, qs, resumeText) ==
    Prompt(qs, <<"d">>, resumeText, BuildUserProfile(profile))
PromptCall(qs, reply, resumeText) ==
    LET e == AnswerFormQuestions(TRUE, 1, rate_limit_store, now, qs, reply) IN
    /\ last.fn = "none"
    /\ rate_limit_store' = e.store
    /\ granted' = Grant(granted, 1, now, e.checked /\ e.allowed)
    /\ last' = [fn |-> "form_questions", u |-> 1, at |-> now, prior |-> Prior(1),
                checked |-> e.checked, allowed |-> e.allowed,
                called_model |-> e.called_model, usage |-> e.usage,
                ret |-> e.ret, raised |-> e.raised, questions |-> qs, reply |-> reply,
                resume_text |-> resumeText,
                prompt |-> IF e.checked /\ e.allowed
                           THEN PromptOf(env.profile, qs, resumeText) ELSE NoPrompt]
    /\ UNCHANGED <<now, thr, taskVars>>

InitPrompt ==
    /\ now = 0
    /\ \E w \in {<<>>, FullWindow} :
           /\ rate_limit_store = [u \in UserIds |-> IF u = 1 THEN w ELSE <<>>]
           /\ granted = rate_limit_store
    /\ last = NoCall
    /\ thr = [t \in ThreadIds |-> IdleThread]
    /\ \E profile \in ProfileRows :
           env = [source |-> "linkedin", has_key |-> TRUE, desc_absent |-> FALSE,
                  profile |-> profile]
    /\ app = [a \in AppIds |-> NoApp]
    /\ runs = [r \in RunIds |-> FreeRun]
    /\ req = "none"

NextPrompt ==
    \E qs \in PageQuestions, reply \in PageReplies, resumeText \in {<<>>, <<"r">>} :
        PromptCall(qs, reply, resumeText)

SpecPrompt == InitPrompt /\ [][NextPrompt]_vars

(***************************************************************************)
(* C24. The prompt of answer_form_questions never carries the LinkedIn     *)
(* cookie: its profile section holds every profile field but               *)
(* linkedin_cookies, and the prompt does not depend on the cookie.         *)
(***************************************************************************)
\* C24: the profile section of a prompt sent to the model holds every field
\* of the profile except linkedin_cookies, with its value, and the prompt is
\* the same for every cookie value the profile could hold
PromptOmitsCookie ==
    (last.fn = "form_questions" /\ last.called_model) =>
        LET up == BuildUserProfile(env.profile) IN
        /\ DOMAIN last.prompt.profile = ProfileFields \ {"linkedin_cookies"}
        /\ \A k \in DOMAIN last.prompt.profile : last.prompt.profile[k] = up[k]
        /\ env.profile.exists =>
              \A c \in StoredCookies :
                  PromptOf([env.profile EXCEPT !.linkedin_cookies = c],
                           last.questions, last.resume_text) = last.prompt

\* a profile holding an encrypted cookie: the task's profile dict carries the
\* decrypted cookie, the prompt that was sent carries the phone number only
PromptOmitsCookieWitness ==
    /\ last.fn = "form_questions" /\ last.called_model
    /\ env.profile.exists
    /\ env.profile.linkedin_cookies = Encrypted(<<"A">>)
    /\ BuildUserProfile(env.profile)["linkedin_cookies"] = StrVal(<<"A">>)
    /\ env.profile.phone = StrVal(<<"5">>)
    /\ last.prompt.profile["phone"] = StrVal(<<"5">>)

(***************************************************************************)
(* SpecChallenge: the two places where the site may answer with a          *)
(* CAPTCHA/2FA checkpoint: the login of connect_linkedin and the           *)
(* navigation of an application run                                        *)
(***************************************************************************)
\* applicator.py:151: the message of the exception raised on a checkpoint page
ChallengeError == "LinkedIn triggered a security challenge (CAPTCHA/2FA)"

\* applicator.py:121-169 login_linkedin, by what the site and the browser do:
\*   init_raises  _init_driver raised
\*   no_form      the login form did not appear or an element was missing
\*   challenge    the browser landed on a checkpoint/challenge URL
\*   rejected     it stayed on the login page
\*   no_cookie    no li_at cookie was set
\*   cookie       the li_at cookie was read
LoginOutcomes == {"init_raises", "no_form", "challenge", "rejected", "no_cookie", "cookie"}
\* the exception login_linkedin raises before its finally ("none": it returns)
LoginError(o) ==
    CASE o = "init_raises" -> "init_driver"
      [] o = "no_form" -> "exception"
      [] o = "challenge" -> ChallengeError
      [] o = "rejected" -> "Login failed. Check your credentials."
      [] o = "no_cookie" -> "Could not find li_at cookie after login."
      [] o = "cookie" -> "none"

\* users.py:202-231 connect_linkedin: slot 2 of runs holds its JobApplicator;
\* exit is the outcome met, cause the exception that left login_linkedin
\* (the one of quit(), when the finally raised), req the response
ConnectLinkedin(o, quitOk) ==
    LET opened == [FreeRun EXCEPT !.applicator = TRUE, !.driver = (o # "init_raises"),
                                  !.exit = o]
        c == CloseDriver(opened.driver, quitOk)
        closed == AfterClose(opened, c)
        error == IF c.raised THEN "quit" ELSE LoginError(o)
    IN  /\ runs[2].pc = "free"
        /\ runs' = [runs EXCEPT ![2] =
               [closed EXCEPT !.pc = IF error = "none" THEN "login_returned" ELSE "login_raised",
                              !.cause = error]]
        /\ env' = [env EXCEPT !.cookie_saved = (error = "none")]
        /\ req' = IF error = "none" THEN "connected" ELSE error
        /\ UNCHANGED <<rateVars, app>>

InitChallenge ==
    /\ now = 0
    /\ rate_limit_store = [u \in UserIds |-> <<>>]
    /\ granted = [u \in UserIds |-> <<>>]
    /\ last = NoCall
    /\ thr = [t \in ThreadIds |-> IdleThread]
    \* challenge: the site answers the run's navigation with a checkpoint page
    /\ env \in [source : {"linkedin"}, has_key : {FALSE}, desc_absent : {FALSE},
                challenge : BOOLEAN, cookie_saved : {FALSE}]
    /\ app = [a \in AppIds |-> IF a = 1 THEN [NoApp EXCEPT !.exists = TRUE] ELSE NoApp]
    /\ runs = [r \in RunIds |-> IF r = 1 THEN [FreeRun EXCEPT !.pc = "queued"] ELSE FreeRun]
    /\ req = "created"

NextChallenge ==
    \/ \E o \in LoginOutcomes, quitOk \in BOOLEAN : ConnectLinkedin(o, quitOk)
    \/ RunLoad(1)
    \/ \E o \in InitOutcomes : RunInitDriver(1, o)
    \/ RunSelectResume(1, TRUE, <<>>, Raise)
    \* applicator.py:223-231: a checkpoint page holds no Easy Apply button
    \/ \E lo \in LinkedinStartOutcomes :
           /\ env.challenge => lo = "no_button"
           /\ RunApply(1, lo, "submitted")
    \/ \E p \in EndPages : FormStep(1, p)
    \/ \E o \in SubmitOutcomes : FormSubmit(1, o)
    \/ \E shotOk \in BOOLEAN : RunFinish(1, shotOk)
    \/ \E shotOk \in BOOLEAN : RunExcept(1, shotOk)
    \/ \E quitOk \in BOOLEAN : RunFinally(1, quitOk)

SpecChallenge == InitChallenge /\ [][NextChallenge]_vars

(***************************************************************************)
(* C25. A CAPTCHA/2FA challenge ends the attempt as a distinct challenge   *)
(* failure: the login raises the challenge error, yields no cookie and     *)
(* closes the session; an application run that meets a challenge ends      *)
(* failed with a challenge-specific error.                                 *)
(***************************************************************************)
\* C25: a login that lands on a checkpoint page (and whose session closes)
\* raises the challenge error and saves no cookie; a run whose navigation is
\* answered by a checkpoint page ends failed with the challenge error
ChallengeIsDistinctFailure ==
    /\ (runs[2].exit = "challenge" /\ runs[2].closed_ok) =>
          /\ runs[2].pc = "login_raised" /\ runs[2].cause = ChallengeError
          /\ req = ChallengeError
          /\ ~env.cookie_saved
          /\ ~runs[2].driver /\ runs[2].closes = 1
    /\ \A o \in LoginOutcomes \ {"challenge"} : LoginError(o) # ChallengeError
    /\ (env.challenge /\ runs[1].pc = "finally" /\ runs[1].log # <<>>) =>
          /\ runs[1].committed = FAILED
          /\ app[1].error_message = ChallengeError

(***************************************************************************)
(* C26. A step that offers no submit, review or next control ends the step *)
(* loop normally, and the task ends failed.                                *)
(***************************************************************************)
\* C26: a loop that ended on a step without advance control raised nothing,
\* and the run commits failed
StuckIsFailure ==
    runs[1].exit = "stuck" =>
        /\ runs[1].cause = "none"
        /\ runs[1].pc \in {"submit", "finish", "finally", "returned"}
        /\ runs[1].pc = "finally" => runs[1].committed = FAILED

(***************************************************************************)
(* SpecStep: one run over the step loop, with the page the browser shows   *)
(* in an iteration kept in the state (env.page)                            *)
(***************************************************************************)
\* the questions a question step may hold
StepQuestions ==
    {OneQuestion,
     <<[id |-> "q0", type |-> "select", options |-> <<<<"1">>, Yes>>]>>,
     <<[id |-> "q0", type |-> "radio", options |-> <<<<"Y">>, <<"1">>>>]>>,
     <<[id |-> "q0", type |-> "checkbox", options |-> <<>>]>>,
     <<[id |-> "q0", type |-> "select", options |-> <<<<"Y">>>>],
       [id |-> "q1", type |-> "text", options |-> <<>>]>>}
\* the replies: an error, or an object that answers the first question
StepReplies == {Raise, [kind |-> "object", map |-> [x \in {"q0"} |-> StrVal(<<"y">>)]]}
\* the marked pages show a Next control or no advance control
StepPages ==
    PlainPages
    \cup
    {[resume |-> TRUE, questions |-> q, ctl |-> c, raises |-> FALSE,
      rcase |-> "upload", qs |-> <<>>, reply |-> Raise, fill_fails |-> FALSE] :
        q \in BOOLEAN, c \in {{}, {"next"}}}
    \cup
    {[resume |-> FALSE, questions |-> TRUE, ctl |-> c, raises |-> FALSE,
      rcase |-> "no_path", qs |-> <<>>, reply |-> Raise, fill_fails |-> FALSE] :
        c \in {{}, {"next"}}}
    \cup
    {[resume |-> FALSE, questions |-> TRUE, ctl |-> {"next"}, raises |-> FALSE,
      rcase |-> "no_path", qs |-> qs, reply |-> rp, fill_fails |-> ff] :
        qs \in StepQuestions, rp \in StepReplies, ff \in BOOLEAN}

\* the browser shows another page while the run is in the step loop
ShowPage(p) ==
    /\ runs[1].pc = "loop"
    /\ env.page # p
    /\ env' = [env EXCEPT !.page = p]
    /\ UNCHANGED <<rateVars, app, runs, req>>

InitStep ==
    /\ now = 0
    /\ rate_limit_store = [u \in UserIds |-> <<>>]
    /\ granted = [u \in UserIds |-> <<>>]
    /\ last = NoCall
    /\ thr = [t \in ThreadIds |-> IdleThread]
    /\ env \in [source : {"linkedin"}, has_key : BOOLEAN, desc_absent : {FALSE},
                page : {p \in PlainPages : p.ctl = {"next"} /\ ~p.raises}]
    /\ app = [a \in AppIds |-> IF a = 1 THEN [NoApp EXCEPT !.exists = TRUE] ELSE NoApp]
    /\ runs = [r \in RunIds |-> IF r = 1 THEN [FreeRun EXCEPT !.pc = "queued"] ELSE FreeRun]
    /\ req = "created"

NextStep ==
    \/ RunLoad(1)
    \/ \E o \in {"uc_ok", "uc_fail_grid_fail"} : RunInitDriver(1, o)
    \/ RunSelectResume(1, TRUE, <<>>, Raise)
    \/ RunApply(1, "clicked", "submitted")
    \/ \E p \in StepPages : ShowPage(p)
    \/ FormStep(1, env.page)
    \/ FormLoopEnd(1)
    \/ \E o \in SubmitOutcomes : FormSubmit(1, o)
    \/ RunFinish(1, TRUE)
    \/ RunExcept(1, TRUE)
    \/ RunFinally(1, TRUE)

SpecStep == InitStep /\ [][NextStep]_vars

\* a step of the model that is one iteration of the step loop
IsIteration == runs'[1].step = runs[1].step + 1
\* the log entries the iteration appended
Appended == SubSeq(runs'[1].log, Len(runs[1].log) + 1, Len(runs'[1].log))

(***************************************************************************)
(* C27. The advance control is chosen in the order submit, review, next:   *)
(* no control is clicked on a step that shows one of higher priority, and  *)
(* at most one is clicked per iteration.                                   *)
(***************************************************************************)
Rank(c) == CASE c = "submit" -> 1 [] c = "review" -> 2 [] c = "next" -> 3
\* the advance controls the iteration clicked, by its log entries
ClickedControls ==
    {c \in {"review", "next"} :
        \/ c = "review" /\ HasMsg(Appended, "Clicked Review")
        \/ c = "next" /\ HasMsg(Appended, "Clicked Next")}
AdvancePriorityStep ==
    IsIteration =>
        /\ \A c \in ClickedControls : \A d \in env.page.ctl : Rank(d) >= Rank(c)
        /\ Cardinality(ClickedControls) <= 1

\* C27: an iteration clicks at most one advance control, and none while a
\* control of higher priority is on the page
AdvanceByPriority == [][AdvancePriorityStep]_vars

(***************************************************************************)
(* C28. Clicking a review control is a non-terminal advance: the step loop *)
(* goes on with a further iteration on the screen that follows.            *)
(***************************************************************************)
ReviewAdvanceStep ==
    (IsIteration /\ HasMsg(Appended, "Clicked Review")) =>
        /\ runs'[1].pc = "loop"
        /\ runs'[1].exit = "none"

\* C28: after an iteration that clicked Review the run is still in the step
\* loop
ReviewIsNonTerminal == [][ReviewAdvanceStep]_vars

(***************************************************************************)
(* C29. In every iteration the resume handler runs exactly when resume     *)
(* markers are detected, the question pipeline exactly when question       *)
(* markers are detected, and the advance search is attempted whatever the  *)
(* handlers did.                                                           *)
(***************************************************************************)
\* the iteration reached the advance search: it logged the final step, a
\* click or the missing control, or the advance click raised
AdvanceAttempted ==
    \/ HasMsg(Appended, "Reached final step")
    \/ HasMsg(Appended, "Clicked Next")
    \/ HasMsg(Appended, "No Next/Continue/Submit button found")
    \/ runs'[1].exit = "click_raised"
HandlersByMarkersStep ==
    IsIteration =>
        /\ HasMsg(Appended, "Resume step detected") <=> env.page.resume
        /\ HasMsg(Appended, "Additional questions detected") <=> env.page.questions
        /\ runs'[1].exit # "raised" => AdvanceAttempted

\* C29: the resume handler runs iff the page shows resume markers, the
\* question pipeline iff it shows question markers, and every iteration
\* whose handlers returned attempts the advance search
HandlersFollowMarkers == [][HandlersByMarkersStep]_vars

(***************************************************************************)
(* C30. A question the resolver left unanswered never aborts the step: a   *)
(* select or radio question with options gets a default from its own       *)
(* options, any other is skipped, a failure while applying an answer is    *)
(* logged and the remaining questions are processed, and the loop goes on  *)
(* to advance.                                                             *)
(***************************************************************************)
\* the answers the question pipeline of the iteration worked with: the AI
\* service's map, or none without a service
StepAnswers ==
    IF runs[1].ai /\ last'.fn = "form_questions" /\ last'.ret.kind = "map"
    THEN last'.ret.map ELSE EmptyMap
Unanswered(q, m) == q.id \notin DOMAIN m \/ m[q.id] \in {StrVal(<<>>), NullVal}
\* the entries the pipeline logs for question i when it acts on it
FillEntries(i) ==
    {Entry("Selected", i), Entry("Selected radio", i), Entry("Entered text", i),
     Entry("Checked checkbox", i), Entry("Failed to fill", i)}
UnansweredStep ==
    (IsIteration /\ env.page.questions /\ ~env.page.resume /\ env.page.qs # <<>>) =>
        LET qs == env.page.qs
            m == StepAnswers
        IN  /\ runs'[1].exit # "raised"
            /\ AdvanceAttempted
            /\ \A i \in DOMAIN qs :
                  LET acted == \E j \in DOMAIN Appended : Appended[j] \in FillEntries(i)
                  IN  /\ Unanswered(qs[i], m) =>
                            IF qs[i].type \in {"select", "radio"} /\ qs[i].options # <<>>
                            THEN /\ acted
                                 /\ ~AnswerFor(qs[i], m).skip
                                 /\ AnswerFor(qs[i], m).value.s \in Range(qs[i].options)
                            ELSE ~acted /\ AnswerFor(qs[i], m).skip
                      /\ ~Unanswered(qs[i], m) => acted
                      /\ (acted /\ env.page.fill_fails) =>
                            \E j \in DOMAIN Appended : Appended[j] = Entry("Failed to fill", i)

\* C30: an iteration with questions never aborts on an unanswered question:
\* select/radio with options get a default from their options, the others
\* are skipped, a failed fill is logged, every question is processed and
\* the advance search follows
UnansweredNeverAborts == [][UnansweredStep]_vars

(***************************************************************************)
(* SpecCalls: one LinkedIn run with an AI service whose form shows a       *)
(* question page at every step of the loop                                 *)
(***************************************************************************)
\* the pages: a plain page and a page of two questions, each with a Next
\* control, and a last page with a Submit control
CallPages ==
    {p \in PlainPages : p.ctl \in {{"next"}, {"submit"}} /\ ~p.raises}
    \cup
    {[resume |-> FALSE, questions |-> TRUE, ctl |-> {"next"}, raises |-> FALSE,
      rcase |-> "no_path", qs |-> qs, reply |-> rp, fill_fails |-> FALSE] :
        qs \in {<<[id |-> "q0", type |-> "select", options |-> <<<<"Y">>>>],
                  [id |-> "q1", type |-> "text", options |-> <<>>]>>},
        rp \in {[kind |-> "object", map |-> [x \in {"q0"} |-> StrVal(<<"y">>)]]}}

InitCalls ==
    /\ now = 0
    /\ rate_limit_store = [u \in UserIds |-> <<>>]
    /\ granted = [u \in UserIds |-> <<>>]
    /\ last = NoCall
    /\ thr = [t \in ThreadIds |-> IdleThread]
    /\ env \in [source : {"linkedin"}, has_key : {TRUE}, desc_absent : BOOLEAN,
                page : {p \in CallPages : p.ctl = {"next"}}]
    /\ app = [a \in AppIds |-> IF a = 1 THEN [NoApp EXCEPT !.exists = TRUE] ELSE NoApp]
    /\ runs = [r \in RunIds |-> IF r = 1 THEN [FreeRun EXCEPT !.pc = "queued"] ELSE FreeRun]
    /\ req = "created"

NextCalls ==
    \/ RunLoad(1)
    \/ RunInitDriver(1, "uc_ok")
    \/ \E resumes \in {<<>>, <<1>>} :
           RunSelectResume(1, TRUE, resumes, [kind |-> "int", id |-> 1])
    \/ RunApply(1, "clicked", "submitted")
    \/ \E p \in CallPages : ShowPage(p)
    \/ FormIteration(1, env.page, max_steps + 1)
    \/ FormLoopEnd(1)
    \/ FormSubmit(1, "clicked")
    \/ RunFinish(1, TRUE)
    \/ RunExcept(1, TRUE)
    \/ RunFinally(1, TRUE)

SpecCalls == InitCalls /\ [][NextCalls]_vars

\* the gateway calls made so far for the user of the run, and whether this
\* step makes one
GatewayCalls == Len(granted[1])
CallsGateway == last'.called_model /\ Len(granted'[1]) > Len(granted[1])

\* C31: a step makes at most one gateway call; a ranking call is the first
\* call of the run and is made before the step loop (at step 0, from the
\* resume selection); an answer call is made by an iteration of the step
\* loop and carries all the questions of the page of that step; a run makes
\* at most 1 + max_steps gateway calls
CallVolumeStep ==
    /\ Len(granted'[1]) <= Len(granted[1]) + 1
    /\ Len(granted'[1]) <= 1 + max_steps
    /\ (CallsGateway /\ last'.fn = "job_match") =>
           /\ GatewayCalls = 0
           /\ runs[1].pc = "select"
           /\ runs[1].step = 0
    /\ (CallsGateway /\ last'.fn # "job_match") =>
           /\ last'.fn = "form_questions"
           /\ runs[1].pc = "loop"
           /\ IsIteration
           /\ last'.questions = env.page.qs
CallVolumeBounded == [][CallVolumeStep]_vars
\* a run that ranked its resumes and answered questions at each of the
\* max_steps steps, the last of them a page of two questions
CallVolumeBoundedWitness ==
    /\ GatewayCalls = 1 + max_steps
    /\ runs[1].step = max_steps
    /\ Len(last.questions) = 2

\* C32: whenever a step writes status applied to an application, it is the
\* outcome update of a run on that application in which a submit control was
\* clicked, and the same update sets applied_at
AppliedStep ==
    \A a \in AppIds :
        (app'[a] # app[a] /\ app'[a].status = APPLIED) =>
            /\ app'[a].applied_at
            /\ \E r \in RunIds :
                   /\ runs[r].app = a
                   /\ runs[r].pc = "finish"
                   /\ runs[r].submit_clicked
                   /\ runs'[r].committed = APPLIED
InitSessions ==
    /\ now = 0
    /\ rate_limit_store = [u \in UserIds |-> <<>>]
    /\ granted = [u \in UserIds |-> <<>>]
    /\ last = NoCall
    /\ thr = [t \in ThreadIds |-> IdleThread]
    /\ env \in [source : {"linkedin"}, has_key : BOOLEAN, desc_absent : {FALSE},
                init : InitOutcomes]
    /\ app = [a \in AppIds |-> IF a = 1 THEN [NoApp EXCEPT !.exists = TRUE] ELSE NoApp]
    /\ runs = [r \in RunIds |-> IF r = 1 THEN [FreeRun EXCEPT !.pc = "queued"] ELSE FreeRun]
    /\ req = "created"

NextSessions ==
    \/ RunLoad(1)
    \/ RunInitDriver(1, env.init)
    \/ RunSelectResume(1, TRUE, <<>>, Raise)
    \/ \E lo \in LinkedinStartOutcomes : RunApply(1, lo, "submitted")
    \/ \E p \in EndPages : FormStep(1, p)
    \/ \E o \in SubmitOutcomes : FormSubmit(1, o)
    \/ RunFinish(1, TRUE)
    \/ RunExcept(1, TRUE)
    \/ RunFinally(1, TRUE)

SpecSessions == InitSessions /\ [][NextSessions]_vars

\* the browser sessions launched so far by _init_driver of run 1, and those
\* of them not yet quit
Launched == IF runs[1].applicator THEN InitDriver(env.init).launched ELSE 0
LiveSessions == Launched - runs[1].quits

\* C33: the applicator holds a handle to every session launched and not yet
\* quit (it holds one handle at most), and no session is left when the run
\* has returned
SessionsAllQuit ==
    /\ LiveSessions <= (IF runs[1].driver THEN 1 ELSE 0)
    /\ runs[1].pc = "returned" => LiveSessions = 0

\* a step of SpecRate that is a call whose check refused user 1
RefusedStep == now' = now /\ last'.checked /\ last'.u = 1 /\ ~last'.allowed
\* C34: a refused check records nothing: it leaves in the user's window the
\* earlier timestamps younger than the window and no other, and the history
\* of allowed checks as it was; the window therefore never holds anything
\* but the allowed checks younger than 60 seconds, and every check is decided
\* by those alone, however many refused checks came before it
RefusedRecordsNothingStep ==
    /\ RefusedStep =>
           /\ rate_limit_store'[1] = Purge(rate_limit_store[1], now)
           /\ granted' = granted
    /\ Purge(rate_limit_store'[1], now') = Purge(granted'[1], now')
    /\ (now' = now /\ last'.checked /\ last'.u = 1) =>
           (last'.allowed <=> Len(Purge(granted[1], now)) < RATE_LIMIT_MAX)
RefusedRecordsNothing == [][RefusedRecordsNothingStep]_vars
\* at time 60 a bare check of user 1 was refused: the window holds the 15
\* allowed checks of time 30 and nothing of the refused one
RefusedRecordsNothingWitness ==
    /\ last.fn = "check" /\ last.checked /\ last.u = 1 /\ ~last.allowed
    /\ last.at = 2 * TickStep
    /\ granted[1] = [i \in 1..RATE_LIMIT_MAX |-> TickStep]
    /\ rate_limit_store[1] = granted[1]

\* C35: an application that was reset by apply_to_job and is now in status
\* applied holds no error description and no failure-snapshot reference
RetryLeavesNoFailureTrace ==
    (req = "reset" /\ app[1].exists /\ app[1].status = APPLIED) =>
        /\ app[1].error_message = "None"
        /\ ~app[1].screenshot_url

(***************************************************************************)
(* SpecFill: applying one answer to the controls of one scraped question   *)
(*   env.q    the question descriptor                                      *)
(*   env.v    the value the model's reply holds for it                     *)
(*   env.ui   the controls: values (the value attributes of the radios),   *)
(*            selected (every checkbox is already selected), raises (a     *)
(*            Selenium call on the controls raises)                        *)
(***************************************************************************)
\* applicator.py:584: answer.lower() in ('yes', 'true', '1')
Truthy == {<<"y", "e", "s">>, <<"t", "r", "u", "e">>, <<"1">>}
DoneEntries == {"Selected", "Selected radio", "Entered text", "Checked checkbox"}

\* applicator.py:556-593: applying the string a to question q; entry is the
\* message logged, acted whether a control of the question was acted upon
FillField(q, a, ui) ==
    IF ui.raises
    THEN [entry |-> "Failed to fill", acted |-> FALSE]
    ELSE CASE q.type = "select" ->
                 \* select_by_value raises NoSuchElementException for a value
                 \* that no option has
                 IF a \in Range(q.options)
                 THEN [entry |-> "Selected", acted |-> TRUE]
                 ELSE [entry |-> "Failed to fill", acted |-> FALSE]
           [] q.type = "radio" ->
                 [entry |-> "Selected radio",
                  acted |-> a \in Range(ui.values) \/ a \in Range(q.options)]
           [] q.type = "text" ->
                 [entry |-> "Entered text", acted |-> TRUE]
           [] q.type = "checkbox" ->
                 [entry |-> "Checked checkbox",
                  acted |-> Lower(a) \in Truthy /\ ~ui.selected]

\* the scraped questions: the options of a select are its option values,
\* those of a radio group the labels of its radios (applicator.py:441-478)
FillQuestions ==
    {[id |-> "q0", type |-> "select", options |-> <<<<"Y">>, <<"1">>>>],
     [id |-> "q0", type |-> "radio", options |-> <<<<"Y">>, <<"1">>>>],
     [id |-> "q0", type |-> "radio", options |-> <<<<"y">>>>],
     [id |-> "q0", type |-> "text", options |-> <<>>],
     [id |-> "q0", type |-> "checkbox", options |-> <<>>]}
FillControls(q) ==
    [values : IF q.type = "radio" THEN [1..Len(q.options) -> {<<"y">>, <<"1">>}] ELSE {<<>>},
     selected : IF q.type = "checkbox" THEN BOOLEAN ELSE {FALSE},
     raises : BOOLEAN]

InitFill ==
    /\ now = 0
    /\ rate_limit_store = [u \in UserIds |-> <<>>]
    /\ granted = [u \in UserIds |-> <<>>]
    /\ last = NoCall
    /\ thr = [t \in ThreadIds |-> IdleThread]
    /\ \E q \in FillQuestions, v \in JsonValues \ {IntVal} : \E ui \in FillControls(q) :
           env = [q |-> q, v |-> v, ui |-> ui, pc |-> "scraped",
                  entry |-> "none", acted |-> FALSE]
    /\ app = [a \in AppIds |-> NoApp]
    /\ runs = [r \in RunIds |-> FreeRun]
    /\ req = "none"

\* ai.py:199-217 validates the reply; applicator.py:543-593 applies it
FillAnswer ==
    LET q == env.q
        m == ValidateAnswers(<<q>>, [x \in {q.id} |-> env.v], 1)
        a == AnswerFor(q, m)
        f == FillField(q, a.value.s, env.ui)
    IN  /\ env.pc = "scraped"
        /\ env' = IF a.skip
                  THEN [env EXCEPT !.pc = "skipped"]
                  ELSE [env EXCEPT !.pc = "filled", !.entry = f.entry, !.acted = f.acted]
        /\ UNCHANGED <<rateVars, app, runs, req>>

SpecFill == InitFill /\ [][FillAnswer]_vars

\* C36: an entry that reports a form action as done is written only after a
\* control of the question was acted upon
DoneEntryFollowsAction ==
    (env.pc = "filled" /\ env.entry \in DoneEntries) => env.acted

(***************************************************************************)
(* SpecShot: one run; env.shot_ok tells whether the statements of          *)
(* _capture_screenshot run through (TRUE) or one of them raises (FALSE)    *)
(***************************************************************************)
InitShot ==
    /\ now = 0
    /\ rate_limit_store = [u \in UserIds |-> <<>>]
    /\ granted = [u \in UserIds |-> <<>>]
    /\ last = NoCall
    /\ thr = [t \in ThreadIds |-> IdleThread]
    /\ env \in [source : {"linkedin"}, has_key : BOOLEAN, desc_absent : {FALSE},
                shot_ok : BOOLEAN]
    /\ app = [a \in AppIds |-> IF a = 1 THEN [NoApp EXCEPT !.exists = TRUE] ELSE NoApp]
    /\ runs = [r \in RunIds |-> IF r = 1 THEN [FreeRun EXCEPT !.pc = "queued"] ELSE FreeRun]
    /\ req = "created"

NextShot ==
    \/ RunLoad(1)
    \/ \E o \in InitOutcomes : RunInitDriver(1, o)
    \/ RunSelectResume(1, TRUE, <<>>, Raise)
    \/ \E lo \in LinkedinStartOutcomes : RunApply(1, lo, "submitted")
    \/ \E p \in EndPages : FormStep(1, p)
    \/ \E o \in SubmitOutcomes : FormSubmit(1, o)
    \/ RunFinish(1, env.shot_ok)
    \/ RunExcept(1, env.shot_ok)
    \/ \E quitOk \in BOOLEAN : RunFinally(1, quitOk)

SpecShot == InitShot /\ [][NextShot]_vars

\* this step calls _capture_screenshot on an applicator that holds a session
CaptureStep == ~runs[1].shot_tried /\ runs'[1].shot_tried /\ runs[1].driver
\* the record a failing run writes when the capture succeeds
\* (applicator.py:875-885 and 891-901)
FailureWithSnapshot ==
    IF runs[1].pc = "finish"
    THEN [app[1] EXCEPT !.status = FAILED,
                        !.error_message = "Application automation failed",
                        !.screenshot_url = TRUE,
                        !.automation_log = runs[1].log, !.has_log = TRUE]
    ELSE [app[1] EXCEPT !.status = FAILED, !.error_message = runs[1].cause,
                        !.screenshot_url = TRUE]

\* C37: a step that calls _capture_screenshot goes on to the finally block
\* with the failure committed; the record it writes is the one written with
\* a successful capture, but for the snapshot reference, which a failed
\* capture leaves as it was
CaptureNeverEscalatesStep ==
    CaptureStep =>
        /\ runs'[1].pc = "finally"
        /\ runs'[1].committed = FAILED
        /\ [app'[1] EXCEPT !.screenshot_url = TRUE] = FailureWithSnapshot
        /\ app'[1].screenshot_url = (app[1].screenshot_url \/ env.shot_ok)
CaptureNeverEscalates == [][CaptureNeverEscalatesStep]_vars
\* _init_driver raised holding a session, the capture in the except handler
\* failed, and the failure stands committed with its cause and no snapshot
CaptureNeverEscalatesWitness ==
    /\ ~env.shot_ok
    /\ runs[1].pc = "finally" /\ runs[1].shot_tried /\ runs[1].driver
    /\ runs[1].cause = "init_driver"
    /\ app[1].status = FAILED /\ app[1].error_message = "init_driver"
    /\ ~app[1].screenshot_url

(***************************************************************************)
(* SpecScrape: _scrape_form_questions over the form elements of one step   *)
(*   an element: label    "absent", "empty" (blank text) or "text"         *)
(*               select, radio, checkbox   it contains such controls       *)
(*               input    "text" (input[type=text] or untyped), "textarea",*)
(*                        "other" (an input of another type), "none"       *)
(***************************************************************************)
MaxElements == 2
FormElements ==
    [label : {"absent", "empty", "text"}, select : BOOLEAN, radio : BOOLEAN,
     checkbox : BOOLEAN, input : {"none", "text", "textarea", "other"}]
NoKind == "none"

\* applicator.py:440-510: the type detected for an element that has a
\* question text; NoKind: no detection matched, nothing is appended
DetectType(e) ==
    IF e.select THEN "select"
    ELSE IF e.radio THEN "radio"
    ELSE IF e.checkbox THEN "checkbox"
    ELSE IF e.input \in {"text", "textarea"} THEN "text"
    ELSE NoKind

\* applicator.py:423-512: the descriptors appended for the elements from
\* position i on; the id of a descriptor is q{idx}, idx counted from 0
RECURSIVE ScrapeFormQuestions(_, _)
ScrapeFormQuestions(elems, i) ==
    IF i > Len(elems) THEN <<>>
    ELSE LET e == elems[i]
             this == IF e.label # "text" \/ DetectType(e) = NoKind
                     THEN <<>>
                     ELSE <<[id |-> i - 1, type |-> DetectType(e)]>>
         IN  this \o ScrapeFormQuestions(elems, i + 1)

InitScrape ==
    /\ now = 0
    /\ rate_limit_store = [u \in UserIds |-> <<>>]
    /\ granted = [u \in UserIds |-> <<>>]
    /\ last = NoCall
    /\ thr = [t \in ThreadIds |-> IdleThread]
    /\ \E n \in 1..MaxElements : \E elems \in [1..n -> FormElements] :
           env = [elems |-> elems, pc |-> "shown", questions |-> <<>>]
    /\ app = [a \in AppIds |-> NoApp]
    /\ runs = [r \in RunIds |-> FreeRun]
    /\ req = "none"

Scrape ==
    /\ env.pc = "shown"
    /\ env' = [env EXCEPT !.pc = "scraped",
                          !.questions = ScrapeFormQuestions(env.elems, 1)]
    /\ UNCHANGED <<rateVars, app, runs, req>>

SpecScrape == InitScrape /\ [][Scrape]_vars

\* the kind by the priority select, radio, checkbox, otherwise text
KindByPriority(e) ==
    IF e.select THEN "select"
    ELSE IF e.radio THEN "radio"
    ELSE IF e.checkbox THEN "checkbox"
    ELSE "text"

\* C38: every element that has a non-empty prompt is returned as exactly one
\* descriptor, whose kind is the one its contents give by the fixed priority
EveryPromptHasKind ==
    env.pc = "scraped" =>
        \A i \in DOMAIN env.elems :
            env.elems[i].label = "text" =>
                /\ Cardinality({j \in DOMAIN env.questions : env.questions[j].id = i - 1}) = 1
                /\ \A j \in DOMAIN env.questions :
                       env.questions[j].id = i - 1 =>
                           env.questions[j].type = KindByPriority(env.elems[i])

====
